---- MODULE Spec2Model ----
(***************************************************************************)
(* A model of the review pipeline of new-langgraph-project:                *)
(*   - the confidence gate (rerank_node + check_confidence_with_retry_...),*)
(*   - the pipeline wired by create_review_graph (graph_create.py),        *)
(*   - the perspective dispatcher of nodes/scoring.py,                     *)
(*   - the file based LLMQueryCache of cache.py.                           *)
(* Each part has its own specification; the variables of the other parts   *)
(* stay at their idle values.                                              *)
(***************************************************************************)
EXTENDS Integers, Sequences, FiniteSets, TLC

VARIABLES
    \* ---- confidence gate ----
    gate_pc,        \* node the gate loop is at
    gate_state,     \* the State dict seen by rerank_node and the gate
    conf_hist,      \* confidence produced by each execution of rerank_node
    answers,        \* answers of check_confidence_with_retry_limit, in order
    \* ---- pipeline of create_review_graph ----
    p_state,        \* the State dict of the run (channels written so far)
    p_todo,         \* nodes of the current superstep that have not run yet
    p_writes,       \* updates returned in the current superstep, in order
    p_next,         \* nodes triggered for the next superstep
    p_executed,     \* how many times each node has run
    p_status,       \* "running", "finished" or "raised"
    p_steps,        \* supersteps completed
    p_cache,        \* LLMQueryCache entries seen by the selectors
    \* ---- perspective dispatcher (nodes/scoring.py) ----
    s_pc,           \* where the call of the pick_candidates node is
    s_entry,        \* "thread": process_all_perspectives, "async": the async version
    s_sched_failed, \* asyncio.run raised RuntimeError
    s_reviews,      \* state["filtered_reviews"]
    s_criteria,     \* the types of state["criteria_by_type"], in order
    s_outcomes,     \* per job: what the backend did for each of its chunks
    s_completed,    \* the jobs in the order they completed
    all_results,    \* all_results of process_all_perspectives (ordered dict)
    s_tasks,        \* per coroutine: the candidates it has appended
    s_thread_ret,   \* candidates returned by process_all_perspectives
    s_ret,          \* candidates returned by the node to the graph
    st_candidates,  \* the channel "candidates" of the State
    \* ---- LLMQueryCache on the file system (cache.py) ----
    fs_dir,         \* the cache directory: name -> inode
    fs_inodes,      \* inode -> content of the file
    fs_next,        \* the next unused inode
    c_saved,        \* the results passed to save_result so far
    w_pc,           \* per writer: position in save_result
    w_result,       \* per writer: the result it saves
    w_fd,           \* per writer: the inode its open file refers to
    w_off,          \* per writer: the offset of its open file
    r_pc,           \* the reader's position in get_cached_result
    r_fd,           \* the inode the reader opened
    r_read,         \* what json.load read
    r_ret,          \* what get_cached_result returned
    \* ---- LLMQueryCache entry by entry (cache.py) and its use by a selector ----
    k_files,        \* cache key -> the entry's file
    k_now,          \* time.time()
    k_ops,          \* calls made so far
    k_prev,         \* the call before the last one
    k_last,         \* the last call: its arguments and what it returned
    \* ---- fuse_candidates_implementation (nodes/fusion.py, graph.py) ----
    f_in,           \* the call: the State, the implementation, the ReviewConfig
    f_pc,           \* "call" before the function ran, "done" after
    f_out,          \* the selected_candidates it returned
    \* ---- create_graph (util/graph_generator.py) ----
    b_nodes,        \* the node list create_graph is given
    b_pc,           \* the step create_graph is at
    b_graph         \* the graph_builder: nodes, entry point, edges, finish point

gate_vars == <<gate_pc, gate_state, conf_hist, answers>>

pipe_vars == <<p_state, p_todo, p_writes, p_next, p_executed, p_status, p_steps, p_cache>>

score_vars == <<s_pc, s_entry, s_sched_failed, s_reviews, s_criteria, s_outcomes,
                s_completed, all_results, s_tasks, s_thread_ret, s_ret, st_candidates>>

cache_vars == <<fs_dir, fs_inodes, fs_next, c_saved, w_pc, w_result, w_fd, w_off,
                r_pc, r_fd, r_read, r_ret>>

store_vars == <<k_files, k_now, k_ops, k_prev, k_last>>

fuse_vars == <<f_in, f_pc, f_out>>

build_vars == <<b_nodes, b_pc, b_graph>>

vars == <<gate_vars, pipe_vars, score_vars, cache_vars, store_vars, fuse_vars, build_vars>>

\* The dispatcher at rest, for the specifications that move another part.
ScoreIdle ==
    /\ s_pc = "idle"
    /\ s_entry = "thread"
    /\ s_sched_failed = FALSE
    /\ s_reviews = <<>>
    /\ s_criteria = <<>>
    /\ s_outcomes = <<>>
    /\ s_completed = <<>>
    /\ all_results = <<>>
    /\ s_tasks = <<>>
    /\ s_thread_ret = <<>>
    /\ s_ret = <<>>
    /\ st_candidates = <<>>

\* The cache at rest.
CacheIdle ==
    /\ fs_dir = <<>>
    /\ fs_inodes = <<>>
    /\ fs_next = 1
    /\ c_saved = {}
    /\ w_pc = <<>>
    /\ w_result = <<>>
    /\ w_fd = <<>>
    /\ w_off = <<>>
    /\ r_pc = "idle"
    /\ r_fd = 0
    /\ r_read = <<>>
    /\ r_ret = [kind |-> "pending", result |-> <<>>]

\* fuse_candidates_implementation not called.
FuseIdle ==
    /\ f_in = <<>>
    /\ f_pc = "idle"
    /\ f_out = <<>>

\* create_graph not called.
BuildIdle ==
    /\ b_nodes = <<>>
    /\ b_pc = "idle"
    /\ b_graph = <<>>

\* The entry store at rest.
StoreIdle ==
    /\ k_files = <<>>
    /\ k_now = 0
    /\ k_ops = 0
    /\ k_prev = [op |-> "none"]
    /\ k_last = [op |-> "none"]

(***************************************************************************)
(* Helpers shared by the parts.                                            *)
(***************************************************************************)

\* dict.get(key, default)
Get(d, k, default) == IF k \in DOMAIN d THEN d[k] ELSE default

\* a node's partial update applied to a State dict (keys without reducer)
Upd(d, u) == [k \in (DOMAIN d) \cup (DOMAIN u) |-> IF k \in DOMAIN u THEN u[k] ELSE d[k]]

Range(s) == {s[i] : i \in 1..Len(s)}

RECURSIVE SumSeq(_)
SumSeq(s) == IF s = <<>> THEN 0 ELSE s[1] + SumSeq(Tail(s))

(***************************************************************************)
(* Confidence gate.  Confidence is kept in hundredths (0.75 = 75).         *)
(***************************************************************************)

\* model bound: executions of rerank_node explored in one run
MaxAttempts == 5

\* `elif retry < 2` of check_confidence_with_retry_limit
RetryCap == 2

\* `if confidence > 0.75`
ConfidenceThreshold == 75

\* state.get("confidence", 1)
DefaultConfidence == 100

\* The confidence a rerank attempt computes.  rerank_node holds a simulation
\* stub ("신뢰도 점수 시뮬레이션") that is meant to vary with the attempt; the
\* gate is specified for whatever the computation yields, so the value is an
\* input of the attempt.  100 is what the stub yields today.
ConfidenceValues == {50, 75, 76, 100}

\* aggregated_best_reviews lists handed to rerank_node (id, rating)
GateReviewLists ==
    { <<>>,
      <<[id |-> 1, rating |-> 4], [id |-> 2, rating |-> 5]>>,
      <<[id |-> 1, rating |-> 5], [id |-> 2, rating |-> 5], [id |-> 3, rating |-> 3]>> }

\* sorted(reviews, key=rating, reverse=True): stable, descending
RECURSIVE InsertByRatingDesc(_, _)
InsertByRatingDesc(sorted, r) ==
    IF sorted = <<>> THEN <<r>>
    ELSE IF Head(sorted).rating >= r.rating
         THEN <<Head(sorted)>> \o InsertByRatingDesc(Tail(sorted), r)
         ELSE <<r>> \o sorted

RECURSIVE SortByRatingDesc(_)
SortByRatingDesc(reviews) ==
    IF reviews = <<>> THEN <<>>
    ELSE InsertByRatingDesc(SortByRatingDesc(SubSeq(reviews, 1, Len(reviews) - 1)),
                            reviews[Len(reviews)])

\* the key of the State dict that check_confidence_with_retry_limit reads
GateRetryKey == "retry_count"

\* check_confidence_with_retry_limit(state)
check_confidence_with_retry_limit(state) ==
    LET retry == Get(state, GateRetryKey, 0)
        confidence == Get(state, "confidence", DefaultConfidence)
    IN  IF confidence > ConfidenceThreshold THEN "high_confidence"
        ELSE IF retry < RetryCap THEN "low_confidence"
        ELSE "high_confidence"

\* rerank_node(state) with the confidence c its computation yields
rerank_update(state, c) ==
    LET retry_count == Get(state, "re_rank_retry_count", 0)
    IN  [aggregated_best_reviews |-> SortByRatingDesc(state["aggregated_best_reviews"]),
         confidence |-> c,
         re_rank_retry_count |-> retry_count + 1]

GateInit ==
    /\ gate_pc = "rerank_auto"
    /\ \E l \in GateReviewLists : gate_state = [aggregated_best_reviews |-> l]
    /\ conf_hist = <<>>
    /\ answers = <<>>

GateIdle ==
    /\ gate_pc = "idle"
    /\ gate_state = [aggregated_best_reviews |-> <<>>]
    /\ conf_hist = <<>>
    /\ answers = <<>>

\* node rerank_auto
RerankNode ==
    /\ gate_pc = "rerank_auto"
    /\ Len(conf_hist) < MaxAttempts
    /\ \E c \in ConfidenceValues :
        /\ gate_state' = Upd(gate_state, rerank_update(gate_state, c))
        /\ conf_hist' = Append(conf_hist, c)
    /\ gate_pc' = "check_confidence"
    /\ UNCHANGED answers

\* conditional edge of rerank_auto: high_confidence -> generate_summary,
\* low_confidence -> fetch_reviews
CheckConfidence ==
    /\ gate_pc = "check_confidence"
    /\ LET a == check_confidence_with_retry_limit(gate_state)
       IN  /\ answers' = Append(answers, a)
           /\ gate_pc' = IF a = "high_confidence" THEN "generate_summary" ELSE "fetch_reviews"
    /\ UNCHANGED <<gate_state, conf_hist>>

\* the upstream steps (fetch_reviews .. aggregate_best) run again and hand a
\* fresh aggregated_best_reviews to rerank_auto
GateUpstream ==
    /\ gate_pc = "fetch_reviews"
    /\ \E l \in GateReviewLists :
        gate_state' = Upd(gate_state, [aggregated_best_reviews |-> l])
    /\ gate_pc' = "rerank_auto"
    /\ UNCHANGED <<conf_hist, answers>>

(***************************************************************************)
(* The pipeline built by create_review_graph.  The compiled graph runs in  *)
(* supersteps: every triggered node runs on the state of the step's start, *)
(* the returned updates are applied when all of them have run, and the     *)
(* nodes named by the edges of the nodes that ran form the next superstep. *)
(***************************************************************************)

\* model bound: supersteps explored in one run
MaxSupersteps == 14

Selectors == {"llm1_select", "llm2_select", "llm3_select"}

PipeNodes == {"fetch_reviews", "use_llm", "aggregate_best", "generate_summary",
              "check_summary_quality", "update_db", "end"} \cup Selectors

\* the channels of State (state/state.py); other keys of an update are dropped
StateKeys == {"mallId", "shopId", "search_review_max_count", "candidate_count",
              "best_review_count", "apply_stock_bonus", "re_rank_retry_count",
              "result_generate_retry_count", "generate_image", "reviews",
              "selected_reviews", "aggregated_best_reviews", "confidence",
              "image_url", "results"}

\* rows the review query can return (rating = 5 by the WHERE clause)
Review(n) == [id |-> n, rating |-> 5]

FetchedRows == { <<>>, <<Review(1)>>, <<Review(1), Review(2)>> }

\* _add_selected_reviews(left, right)
add_selected_reviews(left, right) == left \o right

\* one update applied to the state: reducer for selected_reviews, last value
\* for the other channels
ApplyUpdate(state, u) ==
    LET keys == (DOMAIN u) \cap StateKeys
    IN  [k \in (DOMAIN state) \cup keys |->
            IF k \in keys
            THEN IF k = "selected_reviews" /\ k \in DOMAIN state
                 THEN add_selected_reviews(state[k], u[k])
                 ELSE u[k]
            ELSE state[k]]

RECURSIVE ApplyWrites(_, _)
ApplyWrites(state, writes) ==
    IF writes = <<>> THEN state
    ELSE ApplyWrites(ApplyUpdate(state, Head(writes).update), Tail(writes))

\* the empty update {}
NoUpdate == [k \in {} |-> 0]

\* fetch_reviews_node(state) with the rows the query returns
fetch_reviews_node(state, rows) ==
    IF ~Get(state, "mallId", FALSE) \/ ~Get(state, "shopId", FALSE)
    THEN [reviews |-> <<>>]
    ELSE [reviews |-> rows]

\* check_review_exist(state)
check_review_exist(state) == Len(state["reviews"]) # 0

\* ---- selectors ----

\* what the selection backend answers: candidates (id, score), any ints the
\* parser accepts
SelectorResponses ==
    { <<>>,
      <<[id |-> 1, score |-> 90], [id |-> 2, score |-> 70]>>,
      <<[id |-> 2, score |-> 50], [id |-> 3, score |-> 60]>>,
      <<[id |-> 1, score |-> 150]>> }

ReviewIds(reviews) == {reviews[i].id : i \in 1..Len(reviews)}

\* selected_reviews_map = {r['id']: r for r in reviews}: the last row of an id
LastWithId(reviews, id) ==
    reviews[CHOOSE i \in 1..Len(reviews) :
                /\ reviews[i].id = id
                /\ \A j \in (i + 1)..Len(reviews) : reviews[j].id # id]

\* a selection that keeps the candidates whose id no fetched review has
FinalSelectedUnfiltered(reviews, candidates) ==
    [i \in 1..Len(candidates) |->
        [id |-> candidates[i].id,
         rating |-> IF candidates[i].id \in ReviewIds(reviews)
                    THEN LastWithId(reviews, candidates[i].id).rating ELSE 0,
         score |-> candidates[i].score]]

\* [{**selected_reviews_map[c.id], "score": c.score} for c in candidates if c.id in map]
RECURSIVE FinalSelected(_, _)
FinalSelected(reviews, candidates) ==
    IF candidates = <<>> THEN <<>>
    ELSE LET c == Head(candidates)
             rest == FinalSelected(reviews, Tail(candidates))
         IN  IF c.id \in ReviewIds(reviews)
             THEN <<[id |-> c.id, rating |-> LastWithId(reviews, c.id).rating,
                     score |-> c.score]>> \o rest
             ELSE rest

\* cache key of one selector call: llm name, order-free review fingerprint,
\* candidate_count (the instruction is the same for the three selectors)
CacheKey(llm, reviews, candidate_count) == <<llm, ReviewIds(reviews), candidate_count>>

CacheKeys == { <<l, ids, n>> : l \in Selectors, ids \in {{1}, {1, 2}}, n \in {1, 3} }

\* a key with no entry, and an entry holding a result
NoEntry == [present |-> FALSE, result |-> <<>>]

Entry(result) == [present |-> TRUE, result |-> result]

\* ---- aggregate_best ----

\* ids of all_selected in order of first appearance (keys of `grouped`)
RECURSIVE GroupedIds(_)
GroupedIds(selected) ==
    IF selected = <<>> THEN <<>>
    ELSE LET init == GroupedIds(SubSeq(selected, 1, Len(selected) - 1))
             last == selected[Len(selected)].id
         IN  IF last \in Range(init) THEN init ELSE Append(init, last)

\* all_selected_review_map = {r['id']: r for r in all_selected}
LastSelected(selected, id) ==
    selected[CHOOSE i \in 1..Len(selected) :
                /\ selected[i].id = id
                /\ \A j \in (i + 1)..Len(selected) : selected[j].id # id]

\* [all_selected_review_map[b.id] for b in best_reviews if b.id in map]
RECURSIVE FinalBest(_, _)
FinalBest(selected, best_ids) ==
    IF best_ids = <<>> THEN <<>>
    ELSE LET rest == FinalBest(selected, Tail(best_ids))
         IN  IF Head(best_ids) \in {selected[i].id : i \in 1..Len(selected)}
             THEN <<LastSelected(selected, Head(best_ids))>> \o rest
             ELSE rest

\* the first reported score of each id instead of the mean
GroupedCandidatesFirstScore(selected) ==
    LET ids == GroupedIds(selected)
        first(id) == CHOOSE i \in 1..Len(selected) :
                        /\ selected[i].id = id
                        /\ \A j \in 1..(i - 1) : selected[j].id # id
    IN  [k \in 1..Len(ids) |-> [id |-> ids[k], score |-> <<selected[first(ids[k])].score, 1>>]]

\* candidates: one record per id of grouped, whose score is avg_rating =
\* sum(scores) / len(reviews), kept as the exact fraction <<sum, len>>
GroupedCandidates(selected) ==
    LET ids == GroupedIds(selected)
        scores(id) == [i \in 1..Len(selected) |->
                        IF selected[i].id = id THEN selected[i].score ELSE 0]
        len(id) == Cardinality({i \in 1..Len(selected) : selected[i].id = id})
    IN  [k \in 1..Len(ids) |-> [id |-> ids[k], score |-> <<SumSeq(scores(ids[k])), len(ids[k])>>]]

Reverse(s) == [i \in 1..Len(s) |-> s[Len(s) + 1 - i]]

\* what the aggregation backend answers for the grouped candidates: a list
\* of ids (possibly holding an id that was never offered)
AggregateResponses(selected) ==
    LET g == GroupedIds(selected)
    IN  { g, Reverse(g), <<99>> \o g, <<>> }

\* ---- generate_summary / check_summary_quality ----

\* summaries the generation backend produces for the best reviews
Summaries(best) == [i \in 1..Len(best) |-> [id |-> best[i].id]]

\* generate_summary_node(state); outcome is what the backend call does
generate_summary_node(state, outcome) ==
    LET best_reviews == state["aggregated_best_reviews"]
        retry_count == Get(state, "result_generate_retry_count", 0)
    IN  IF retry_count >= RetryCap
        THEN [results |-> state["results"]]
        ELSE IF Len(best_reviews) = 0
        THEN [results |-> <<>>, result_generate_retry_count |-> retry_count + 1]
        ELSE IF outcome = "ok"
        THEN [results |-> Summaries(best_reviews),
              result_generate_retry_count |-> retry_count + 1]
        ELSE \* the backend raised, or returned no summary
             [results |-> <<>>, result_generate_retry_count |-> retry_count + 1]

\* check_summary_quality_node(state): the summaries of generate_summary_node
\* carry no 'results' key, so each is kept as it is; a backend failure
\* returns {}
check_summary_quality_node(state, outcome) ==
    LET summaries == Get(state, "results", <<>>)
    IN  IF Len(summaries) = 0
        THEN [quality_check_passed |-> TRUE, validation_results |-> <<>>]
        ELSE IF outcome = "ok" THEN [results |-> summaries]
        ELSE NoUpdate

\* check_summary_quality_with_retry_limit(state)
check_summary_quality_with_retry_limit(state) ==
    LET results == Get(state, "results", <<>>)
    IN  IF Len(results) = 0 THEN "error" ELSE "pass"

\* the lambda of the conditional edge of check_summary_quality
SummaryBranch(state) ==
    IF check_summary_quality_with_retry_limit(state) = "pass" /\ Get(state, "generate_image", FALSE)
    THEN "pass_and_gen"
    ELSE IF check_summary_quality_with_retry_limit(state) = "pass"
            /\ ~Get(state, "generate_image", FALSE)
    THEN "pass_and_skip"
    ELSE "fail"

\* the mapping of the conditional edge; pass_and_gen has no entry
SummaryBranchTargets == [pass_and_skip |-> "update_db", fail |-> "generate_summary"]

\* ---- the run ----

\* the state the caller invokes the graph with
PipeInputs ==
    { [mallId |-> m, shopId |-> TRUE, generate_image |-> g, selected_reviews |-> <<>>] :
        m \in BOOLEAN, g \in BOOLEAN }
    \cup { [mallId |-> TRUE, shopId |-> TRUE, generate_image |-> FALSE,
            selected_reviews |-> <<>>, candidate_count |-> 1] }

PipeInit ==
    /\ p_state \in PipeInputs
    /\ p_todo = {"fetch_reviews"}
    /\ p_writes = <<>>
    /\ p_next = {}
    /\ p_executed = [n \in PipeNodes |-> 0]
    /\ p_status = "running"
    /\ p_steps = 0
    /\ p_cache \in { [k \in CacheKeys |-> NoEntry],
                     [k \in CacheKeys |->
                        IF k = <<"llm1_select", {1, 2}, 3>>
                        THEN Entry(<<[id |-> 1, rating |-> 5, score |-> 80]>>)
                        ELSE NoEntry] }

PipeIdle ==
    /\ p_state = [selected_reviews |-> <<>>]
    /\ p_todo = {}
    /\ p_writes = <<>>
    /\ p_next = {}
    /\ p_executed = [n \in PipeNodes |-> 0]
    /\ p_status = "idle"
    /\ p_steps = 0
    /\ p_cache = [k \in CacheKeys |-> NoEntry]

\* node n returns update u and triggers the nodes succ
Emit(n, u, succ) ==
    /\ p_writes' = Append(p_writes, [node |-> n, update |-> u])
    /\ p_todo' = p_todo \ {n}
    /\ p_next' = p_next \cup succ
    /\ p_executed' = [p_executed EXCEPT ![n] = @ + 1]

Runs(n) == p_status = "running" /\ n \in p_todo

\* fetch_reviews: the conditional edge (check_review_exist) and the plain
\* edge to use_llm both leave this node
FetchReviews ==
    /\ Runs("fetch_reviews")
    /\ \E rows \in FetchedRows :
        LET u == fetch_reviews_node(p_state, rows)
            fresh == ApplyUpdate(p_state, u)
        IN  Emit("fetch_reviews", u,
                 {"use_llm"} \cup {IF check_review_exist(fresh) THEN "use_llm" ELSE "end"})
    /\ UNCHANGED <<p_state, p_status, p_steps, p_cache>>

UseLlm ==
    /\ Runs("use_llm")
    /\ Emit("use_llm", NoUpdate, Selectors)
    /\ UNCHANGED <<p_state, p_status, p_steps, p_cache>>

\* llm_selector_node of one selector
LlmSelect(llm) ==
    /\ Runs(llm)
    /\ LET reviews == Get(p_state, "reviews", <<>>)
           candidate_count == Get(p_state, "candidate_count", 3)
           key == CacheKey(llm, reviews, candidate_count)
       IN  IF Len(reviews) = 0
           THEN /\ Emit(llm, [selected_reviews |-> <<>>], {"aggregate_best"})
                /\ UNCHANGED p_cache
           ELSE IF p_cache[key].present
           THEN /\ Emit(llm, [selected_reviews |-> p_cache[key].result], {"aggregate_best"})
                /\ UNCHANGED p_cache
           ELSE \/ \E resp \in SelectorResponses :
                     LET final == FinalSelected(reviews, resp)
                     IN  /\ p_cache' = [p_cache EXCEPT ![key] = Entry(final)]
                         /\ Emit(llm, [selected_reviews |-> final], {"aggregate_best"})
                \/ \* the backend call or the parser raised
                   /\ Emit(llm, [selected_reviews |-> <<>>], {"aggregate_best"})
                   /\ UNCHANGED p_cache
    /\ UNCHANGED <<p_state, p_status, p_steps>>

\* aggregate_best_node
AggregateBest ==
    /\ Runs("aggregate_best")
    /\ LET all_selected == p_state["selected_reviews"]
       IN  IF Len(all_selected) = 0
           THEN Emit("aggregate_best", [aggregated_best_reviews |-> <<>>], {"generate_summary"})
           ELSE \/ \E best \in AggregateResponses(all_selected) :
                     Emit("aggregate_best",
                          [aggregated_best_reviews |-> FinalBest(all_selected, best)],
                          {"generate_summary"})
                \/ Emit("aggregate_best", [aggregated_best_reviews |-> <<>>],
                        {"generate_summary"})
    /\ UNCHANGED <<p_state, p_status, p_steps, p_cache>>

GenerateSummary ==
    /\ Runs("generate_summary")
    /\ \E outcome \in {"ok", "failed"} :
        Emit("generate_summary", generate_summary_node(p_state, outcome),
             {"check_summary_quality"})
    /\ UNCHANGED <<p_state, p_status, p_steps, p_cache>>

\* check_summary_quality and its conditional edge; a branch name the mapping
\* does not hold makes the run raise
CheckSummaryQuality ==
    /\ Runs("check_summary_quality")
    /\ \E outcome \in {"ok", "failed"} :
        LET u == check_summary_quality_node(p_state, outcome)
            fresh == ApplyUpdate(p_state, u)
            branch == SummaryBranch(fresh)
        IN  IF branch \in DOMAIN SummaryBranchTargets
            THEN /\ Emit("check_summary_quality", u, {SummaryBranchTargets[branch]})
                 /\ UNCHANGED p_status
            ELSE /\ Emit("check_summary_quality", u, {})
                 /\ p_status' = "raised"
    /\ UNCHANGED <<p_state, p_steps, p_cache>>

\* update_db_node returns {}
UpdateDb ==
    /\ Runs("update_db")
    /\ Emit("update_db", NoUpdate, {"end"})
    /\ UNCHANGED <<p_state, p_status, p_steps, p_cache>>

\* node end: lambda state: state; its edge leads to END
EndNode ==
    /\ Runs("end")
    /\ Emit("end", p_state, {})
    /\ UNCHANGED <<p_state, p_status, p_steps, p_cache>>

\* end of a superstep: the updates are applied, the triggered nodes start
Barrier ==
    /\ p_status = "running"
    /\ p_todo = {}
    /\ p_next # {} => p_steps < MaxSupersteps
    /\ p_state' = ApplyWrites(p_state, p_writes)
    /\ p_writes' = <<>>
    /\ p_todo' = p_next
    /\ p_next' = {}
    /\ p_steps' = p_steps + 1
    /\ p_status' = IF p_next = {} THEN "finished" ELSE "running"
    /\ UNCHANGED <<p_executed, p_cache>>

PipeNext ==
    \/ FetchReviews /\ UNCHANGED <<gate_vars, score_vars, cache_vars, store_vars, fuse_vars, build_vars>>
    \/ UseLlm /\ UNCHANGED <<gate_vars, score_vars, cache_vars, store_vars, fuse_vars, build_vars>>
    \/ (\E llm \in Selectors : LlmSelect(llm)) /\ UNCHANGED <<gate_vars, score_vars, cache_vars, store_vars, fuse_vars, build_vars>>
    \/ AggregateBest /\ UNCHANGED <<gate_vars, score_vars, cache_vars, store_vars, fuse_vars, build_vars>>
    \/ GenerateSummary /\ UNCHANGED <<gate_vars, score_vars, cache_vars, store_vars, fuse_vars, build_vars>>
    \/ CheckSummaryQuality /\ UNCHANGED <<gate_vars, score_vars, cache_vars, store_vars, fuse_vars, build_vars>>
    \/ UpdateDb /\ UNCHANGED <<gate_vars, score_vars, cache_vars, store_vars, fuse_vars, build_vars>>
    \/ EndNode /\ UNCHANGED <<gate_vars, score_vars, cache_vars, store_vars, fuse_vars, build_vars>>
    \/ Barrier /\ UNCHANGED <<gate_vars, score_vars, cache_vars, store_vars, fuse_vars, build_vars>>

PipeSpecInit == PipeInit /\ GateIdle /\ ScoreIdle /\ CacheIdle /\ StoreIdle /\ FuseIdle /\ BuildIdle

PipeSpec == PipeSpecInit /\ [][PipeNext]_vars

\* C2: the summary loop is left after at most RetryCap + 1 executions of
\* generate_summary_node, whatever the generation outcomes are.
C2_SummaryLoopBounded == p_executed["generate_summary"] <= RetryCap + 1

\* C3: when fetch_reviews_node returned an empty list, no selector, no
\* aggregation and no summary generation runs, and the run does not raise.
FetchedNothing ==
    /\ p_executed["fetch_reviews"] > 0
    /\ \/ \E i \in 1..Len(p_writes) :
             p_writes[i].node = "fetch_reviews" /\ p_writes[i].update.reviews = <<>>
       \/ ("reviews" \in DOMAIN p_state /\ p_state["reviews"] = <<>>)

C3_EmptyFetchShortCircuits ==
    FetchedNothing =>
        /\ \A n \in Selectors \cup {"aggregate_best", "generate_summary"} : p_executed[n] = 0
        /\ p_status # "raised"

GateNext ==
    \/ RerankNode /\ UNCHANGED <<pipe_vars, score_vars, cache_vars, store_vars, fuse_vars, build_vars>>
    \/ CheckConfidence /\ UNCHANGED <<pipe_vars, score_vars, cache_vars, store_vars, fuse_vars, build_vars>>
    \/ GateUpstream /\ UNCHANGED <<pipe_vars, score_vars, cache_vars, store_vars, fuse_vars, build_vars>>

GateSpecInit == GateInit /\ PipeIdle /\ ScoreIdle /\ CacheIdle /\ StoreIdle /\ FuseIdle /\ BuildIdle

GateSpec == GateSpecInit /\ [][GateNext]_vars

AllAttemptsLow == \A i \in 1..Len(conf_hist) : conf_hist[i] <= ConfidenceThreshold

DictHas(d, k) == \E i \in 1..Len(d) : d[i].k = k

DictGet(d, k) == d[CHOOSE i \in 1..Len(d) : d[i].k = k].v

DictSet(d, k, v) ==
    IF DictHas(d, k)
    THEN [i \in 1..Len(d) |-> IF d[i].k = k THEN [k |-> k, v |-> v] ELSE d[i]]
    ELSE Append(d, [k |-> k, v |-> v])

RECURSIVE DictUpdate(_, _)
DictUpdate(d, u) ==
    IF u = <<>> THEN d ELSE DictUpdate(DictSet(d, Head(u).k, Head(u).v), Tail(u))

\* Keys of the score dicts are Python ints or strs; 1 and "1" are different
\* keys. A key carries its kind and its characters: digits, and PartMark for
\* the infix "_part" of a split review's id.
PartMark == 0 - 1

Digits(n) == IF n < 10 THEN <<n>> ELSE <<n \div 10, n % 10>>

IntKey(n) == [kind |-> "int", s |-> Digits(n)]

StrKey(chars) == [kind |-> "str", s |-> chars]

\* str(x)
StrOf(key) == StrKey(key.s)

\* f"{review['id']}_part{i+1}"
PartKey(n, part) == StrKey(Digits(n) \o <<PartMark, part>>)

\* a.startswith(b) on the characters of two strs
StartsWith(a, b) == Len(b.s) <= Len(a.s) /\ SubSeq(a.s, 1, Len(b.s)) = b.s

\* re.findall(r'\d+', text)[-1] on the text of an id
LastNumber(chars) ==
    LET marks == {i \in 1..Len(chars) : chars[i] = PartMark}
    IN  IF marks = {} THEN chars
        ELSE SubSeq(chars, (CHOOSE i \in marks : \A j \in marks : j <= i) + 1, Len(chars))

MaxChunkTokens == 8000
BasePromptTokens == 100
LineTokens == 10
DefaultScore == 50

\* A review is its id and its text, the text a sequence of sentences, each
\* given by its token estimate.
ScoreReview(n, text) == [id |-> n, text |-> text]

\* chunk_overlap_tokens of TextChunker
ChunkOverlapTokens == 200

\* _add_overlaps: every chunk after the first is preceded by the last words
\* of the chunk before it, as many as fit into chunk_overlap_tokens. A word
\* with its blank is estimated at one token, so the overlap is a piece of
\* text of min(chunk_overlap_tokens, tokens of the chunk before) tokens.
add_overlaps(chunks) ==
    [i \in 1..Len(chunks) |->
        IF i = 1 THEN chunks[1]
        ELSE LET prev == SumSeq(chunks[i - 1])
             IN  <<IF prev <= ChunkOverlapTokens THEN prev ELSE ChunkOverlapTokens>>
                 \o chunks[i]]

\* _chunk_by_sentences for sentences that each fit into a chunk: the loop
\* over the sentences; chunk_text adds the overlaps to what it returns.
RECURSIVE PackSentences(_, _, _, _)
PackSentences(sentences, current, chunks, max) ==
    IF sentences = <<>>
    THEN IF current # <<>> THEN Append(chunks, current) ELSE chunks
    ELSE LET s == Head(sentences)
         IN  IF SumSeq(current) + s > max /\ current # <<>>
             THEN PackSentences(Tail(sentences), <<s>>, Append(chunks, current), max)
             ELSE PackSentences(Tail(sentences), Append(current, s), chunks, max)

chunk_text(text, max) ==
    IF SumSeq(text) = 0 THEN <<>>
    ELSE IF SumSeq(text) <= max THEN <<text>>
    ELSE LET chunks == PackSentences(text, <<>>, <<>>, max)
         IN  IF Len(chunks) > 1 THEN add_overlaps(chunks) ELSE chunks

WholeEntry(review) ==
    [id |-> IntKey(review.id), original_id |-> IntKey(review.id), is_split |-> FALSE,
     cleaned_text |-> review.text]

SplitEntry(review, part, chunk) ==
    [id |-> PartKey(review.id, part), original_id |-> IntKey(review.id), is_split |-> TRUE,
     cleaned_text |-> chunk]

RECURSIVE ChunkLoop(_, _, _, _, _)
ChunkLoop(reviews, chunks, current_chunk, current_tokens, max) ==
    IF reviews = <<>>
    THEN IF current_chunk # <<>> THEN Append(chunks, current_chunk) ELSE chunks
    ELSE LET review == Head(reviews)
             review_tokens == LineTokens + SumSeq(review.text)
         IN  IF review_tokens + BasePromptTokens > max
             THEN LET saved == IF current_chunk # <<>> THEN Append(chunks, current_chunk)
                                                      ELSE chunks
                      text_chunks == chunk_text(review.text, max)
                      split == [i \in 1..Len(text_chunks) |-> <<SplitEntry(review, i, text_chunks[i])>>]
                  IN  ChunkLoop(Tail(reviews), saved \o split, <<>>, 0, max)
             ELSE IF current_chunk # <<>>
                     /\ current_tokens + review_tokens + BasePromptTokens > max
             THEN ChunkLoop(Tail(reviews), Append(chunks, current_chunk),
                            <<WholeEntry(review)>>, review_tokens, max)
             ELSE ChunkLoop(Tail(reviews), chunks, Append(current_chunk, WholeEntry(review)),
                            current_tokens + review_tokens, max)

create_review_chunks(reviews, max) == ChunkLoop(reviews, <<>>, <<>>, 0, max)

\* What the scoring backend does with one chunk: it raises, or it answers
\* with lines. "none": no line holds a score; "index": one line
\* "리뷰 <i>: 30" per entry; "id": one line "<id>: 150" per entry.
ChunkOutcomes == {"raise", "none", "index", "id"}

ResponseLines(chunk, outcome) ==
    IF outcome = "index"
    THEN [i \in 1..Len(chunk) |-> [form |-> "index", idx |-> i, idnum |-> <<>>, score |-> 30]]
    ELSE IF outcome = "id"
    THEN [i \in 1..Len(chunk) |->
            [form |-> "id", idx |-> 0, idnum |-> LastNumber(chunk[i].id.s), score |-> 150]]
    ELSE <<>>

\* max(0, min(100, score))
Clamp(x) == IF x < 0 THEN 0 ELSE IF x > 100 THEN 100 ELSE x

ParseLine(scores, line, chunk) ==
    IF line.form = "index"
    THEN IF line.idx \in 1..Len(chunk)
         THEN DictSet(scores, StrOf(chunk[line.idx].id), Clamp(line.score))
         ELSE scores
    ELSE IF line.idnum # <<>>
         THEN DictSet(scores, StrKey(line.idnum), Clamp(line.score))
         ELSE scores

RECURSIVE ParseLines(_, _, _)
ParseLines(scores, lines, chunk) ==
    IF lines = <<>> THEN scores
    ELSE ParseLines(ParseLine(scores, Head(lines), chunk), Tail(lines), chunk)

RECURSIVE FillDefaults(_, _)
FillDefaults(scores, entries) ==
    IF entries = <<>> THEN scores
    ELSE LET review == Head(entries)
             review_id == StrOf(review.id)
             matches == {i \in 1..Len(scores) : StartsWith(scores[i].k, StrOf(review.original_id))}
             first == CHOOSE i \in matches : \A j \in matches : i <= j
             filled == IF DictHas(scores, review_id) THEN scores
                       ELSE IF review.is_split /\ matches # {}
                       THEN DictSet(scores, review_id, scores[first].v)
                       ELSE DictSet(scores, review_id, DefaultScore)
         IN  FillDefaults(filled, Tail(entries))

RECURSIVE FinalScores(_, _, _)
FinalScores(final, scores, entries) ==
    IF entries = <<>> THEN final
    ELSE LET review == Head(entries)
             v == IF DictHas(scores, StrOf(review.id)) THEN DictGet(scores, StrOf(review.id))
                  ELSE DefaultScore
         IN  FinalScores(DictSet(final, review.id, v), scores, Tail(entries))

RECURSIVE DefaultScores(_, _)
DefaultScores(final, entries) ==
    IF entries = <<>> THEN final
    ELSE DefaultScores(DictSet(final, Head(entries).id, DefaultScore), Tail(entries))

score_single_chunk(chunk, outcome) ==
    IF outcome = "raise" THEN DefaultScores(<<>>, chunk)
    ELSE FinalScores(<<>>,
                     FillDefaults(ParseLines(<<>>, ResponseLines(chunk, outcome), chunk), chunk),
                     chunk)

\* The chunks hold distinct keys, so the order in which their futures
\* complete changes the insertion order of all_scores only.
RECURSIVE score_multiple_chunks_parallel(_, _, _)
score_multiple_chunks_parallel(all_scores, chunks, outcomes) ==
    IF chunks = <<>> THEN all_scores
    ELSE score_multiple_chunks_parallel(
            DictUpdate(all_scores, score_single_chunk(Head(chunks), Head(outcomes))),
            Tail(chunks), Tail(outcomes))

score_reviews_batch_with_llm(reviews, outcomes) ==
    LET chunks == create_review_chunks(reviews, MaxChunkTokens)
    IN  IF Len(chunks) = 1 THEN score_single_chunk(chunks[1], outcomes[1])
        ELSE score_multiple_chunks_parallel(<<>>, chunks, outcomes)

process_single_criteria_sync(criteria_type, filtered_reviews, outcomes) ==
    LET scores == score_reviews_batch_with_llm(filtered_reviews, outcomes)
        review_scores == [i \in 1..Len(scores) |->
            [k |-> scores[i].k, v |-> [score |-> scores[i].v, perspective |-> criteria_type]]]
    IN  <<[k |-> criteria_type, v |-> review_scores]>>

CandidateScore(score, perspective) == [score |-> score, perspective |-> perspective]

Candidate(review_id, score) == [review_id |-> review_id, score |-> score]

RECURSIVE ReviewScores(_, _)
ReviewScores(results, review_id) ==
    IF results = <<>> THEN <<>>
    ELSE LET rest == ReviewScores(Tail(results), review_id)
         IN  IF DictHas(Head(results).v, IntKey(review_id))
             THEN <<DictGet(Head(results).v, IntKey(review_id))>> \o rest
             ELSE rest

RECURSIVE MergeLoop(_, _)
MergeLoop(reviews, results) ==
    IF reviews = <<>> THEN <<>>
    ELSE LET review_id == Head(reviews).id
             scores == ReviewScores(results, review_id)
             rest == MergeLoop(Tail(reviews), results)
         IN  IF scores # <<>> THEN <<Candidate(review_id, scores)>> \o rest ELSE rest

\* A merge that lets the completion order of the jobs decide the order of
\* the candidates.
MergeCandidatesInCompletionOrder(filtered_reviews, results) ==
    MergeLoop(IF results # <<>> /\ results[1].k # s_criteria[1]
              THEN Reverse(filtered_reviews) ELSE filtered_reviews,
              results)

MergeCandidates(filtered_reviews, results) == MergeLoop(filtered_reviews, results)

\* states.py: the reducer of the channel "candidates"
add_candidates(left, right) == left \o right

\* ---- the node pick_candidates, in its two implementations ----

ScoreReviewLists ==
    { <<>>,
      <<ScoreReview(1, <<1000>>)>>,
      <<ScoreReview(1, <<1000>>), ScoreReview(12, <<1000>>)>>,
      <<ScoreReview(12, <<5000>>), ScoreReview(1, <<5000>>)>>,
      <<ScoreReview(12, <<7950>>)>>,
      <<ScoreReview(12, <<1000>>), ScoreReview(1, <<5000, 5000>>)>> }

CriteriaLists == { <<"A">>, <<"A", "B">>, <<"A", "A">> }

\* 80 + hash(...) % 20
AsyncScores == {80, 99}

Jobs == 1..Len(s_criteria)

NChunks == Len(create_review_chunks(s_reviews, MaxChunkTokens))

ScoreInit ==
    /\ s_pc = "call"
    /\ s_entry \in {"thread", "async"}
    /\ s_sched_failed = FALSE
    /\ s_reviews \in ScoreReviewLists
    /\ s_criteria \in CriteriaLists
    /\ s_outcomes = [i \in 1..Len(s_criteria) |-> <<>>]
    /\ s_completed = <<>>
    /\ all_results = <<>>
    /\ s_tasks = [i \in 1..Len(s_criteria) |-> <<>>]
    /\ s_thread_ret = <<>>
    /\ s_ret = <<>>
    /\ st_candidates = <<>>

\* process_all_perspectives up to the submission of the jobs
EnterThread ==
    /\ s_pc = "call"
    /\ s_entry = "thread"
    /\ IF s_reviews = <<>>
       THEN s_pc' = "return" /\ s_ret' = <<>>
       ELSE s_pc' = "jobs" /\ s_ret' = s_ret
    /\ UNCHANGED <<s_entry, s_sched_failed, s_reviews, s_criteria, s_outcomes, s_completed,
                   all_results, s_tasks, s_thread_ret, st_candidates>>

\* where the except clause of the async version sends the call
FallbackTarget == "jobs"

\* process_all_perspectives_async_version up to asyncio.run
EnterAsync ==
    /\ s_pc = "call"
    /\ s_entry = "async"
    /\ IF s_reviews = <<>>
       THEN s_pc' = "return" /\ s_ret' = <<>> /\ s_sched_failed' = FALSE
       ELSE \E started \in BOOLEAN :
               /\ s_sched_failed' = ~started
               /\ s_pc' = IF started THEN "tasks" ELSE FallbackTarget
               /\ s_ret' = s_ret
    /\ UNCHANGED <<s_entry, s_reviews, s_criteria, s_outcomes, s_completed,
                   all_results, s_tasks, s_thread_ret, st_candidates>>

\* one future of as_completed: the job ran process_single_criteria_sync and
\* its result is put into all_results
JobComplete(i) ==
    /\ s_pc = "jobs"
    /\ i \in Jobs
    /\ \A k \in 1..Len(s_completed) : s_completed[k] # i
    /\ \E outcomes \in [1..NChunks -> ChunkOutcomes] :
        /\ s_outcomes' = [s_outcomes EXCEPT ![i] = outcomes]
        /\ all_results' = DictUpdate(all_results,
                process_single_criteria_sync(s_criteria[i], s_reviews, outcomes))
    /\ s_completed' = Append(s_completed, i)
    /\ UNCHANGED <<s_pc, s_entry, s_sched_failed, s_reviews, s_criteria, s_tasks,
                   s_thread_ret, s_ret, st_candidates>>

\* the merge loop of process_all_perspectives and its return
Merge ==
    /\ s_pc = "jobs"
    /\ Len(s_completed) = Len(s_criteria)
    /\ s_thread_ret' = MergeCandidates(s_reviews, all_results)
    /\ s_pc' = "merged"
    /\ UNCHANGED <<s_entry, s_sched_failed, s_reviews, s_criteria, s_outcomes, s_completed,
                   all_results, s_tasks, s_ret, st_candidates>>

\* what the node returns once process_all_perspectives has returned: the
\* thread implementation is that call, the async one returns its value
\* A fallback that loses what the thread dispatcher returned.
FallbackReturnNothing(thread_candidates) == <<>>

FallbackReturn(thread_candidates) == thread_candidates

ReturnThread ==
    /\ s_pc = "merged"
    /\ s_ret' = IF s_sched_failed THEN FallbackReturn(s_thread_ret) ELSE s_thread_ret
    /\ s_pc' = "return"
    /\ UNCHANGED <<s_entry, s_sched_failed, s_reviews, s_criteria, s_outcomes, s_completed,
                   all_results, s_tasks, s_thread_ret, st_candidates>>

\* hash() gives one value per string within a process
HashAllowed(review_id, criteria_type, score) ==
    \A i \in 1..Len(s_tasks) : \A k \in 1..Len(s_tasks[i]) :
        (s_tasks[i][k].review_id = review_id /\ s_criteria[i] = criteria_type)
            => s_tasks[i][k].score[1].score = score

\* one iteration of the loop of process_single_criteria_async
AsyncStep(i) ==
    /\ s_pc = "tasks"
    /\ i \in Jobs
    /\ Len(s_tasks[i]) < Len(s_reviews)
    /\ LET review == s_reviews[Len(s_tasks[i]) + 1]
       IN  \E score \in AsyncScores :
            /\ HashAllowed(review.id, s_criteria[i], score)
            /\ s_tasks' = [s_tasks EXCEPT ![i] =
                    Append(@, Candidate(review.id, <<CandidateScore(score, s_criteria[i])>>))]
    /\ UNCHANGED <<s_pc, s_entry, s_sched_failed, s_reviews, s_criteria, s_outcomes,
                   s_completed, all_results, s_thread_ret, s_ret, st_candidates>>

RECURSIVE Flatten(_)
Flatten(lists) == IF lists = <<>> THEN <<>> ELSE Head(lists) \o Flatten(Tail(lists))

\* asyncio.gather returned: the results are extended in the order of the tasks
AsyncGather ==
    /\ s_pc = "tasks"
    /\ \A i \in Jobs : Len(s_tasks[i]) = Len(s_reviews)
    /\ s_ret' = Flatten(s_tasks)
    /\ s_pc' = "return"
    /\ UNCHANGED <<s_entry, s_sched_failed, s_reviews, s_criteria, s_outcomes, s_completed,
                   all_results, s_tasks, s_thread_ret, st_candidates>>

\* the graph applies the node's update {"candidates": ...} with the reducer
ApplyCandidates ==
    /\ s_pc = "return"
    /\ st_candidates' = add_candidates(st_candidates, s_ret)
    /\ s_pc' = "done"
    /\ UNCHANGED <<s_entry, s_sched_failed, s_reviews, s_criteria, s_outcomes, s_completed,
                   all_results, s_tasks, s_thread_ret, s_ret>>

ScoreNext ==
    \/ EnterThread /\ UNCHANGED <<gate_vars, pipe_vars, cache_vars, store_vars, fuse_vars, build_vars>>
    \/ EnterAsync /\ UNCHANGED <<gate_vars, pipe_vars, cache_vars, store_vars, fuse_vars, build_vars>>
    \/ (\E i \in Jobs : JobComplete(i)) /\ UNCHANGED <<gate_vars, pipe_vars, cache_vars, store_vars, fuse_vars, build_vars>>
    \/ Merge /\ UNCHANGED <<gate_vars, pipe_vars, cache_vars, store_vars, fuse_vars, build_vars>>
    \/ ReturnThread /\ UNCHANGED <<gate_vars, pipe_vars, cache_vars, store_vars, fuse_vars, build_vars>>
    \/ (\E i \in Jobs : AsyncStep(i)) /\ UNCHANGED <<gate_vars, pipe_vars, cache_vars, store_vars, fuse_vars, build_vars>>
    \/ AsyncGather /\ UNCHANGED <<gate_vars, pipe_vars, cache_vars, store_vars, fuse_vars, build_vars>>
    \/ ApplyCandidates /\ UNCHANGED <<gate_vars, pipe_vars, cache_vars, store_vars, fuse_vars, build_vars>>

ScoreSpecInit == ScoreInit /\ GateIdle /\ PipeIdle /\ CacheIdle /\ StoreIdle /\ FuseIdle /\ BuildIdle

ScoreSpec == ScoreSpecInit /\ [][ScoreNext]_vars

\* ---- properties of the dispatcher ----

\* process_all_perspectives has returned s_thread_ret
ThreadReturned == s_pc \in {"merged", "return", "done"} /\ s_completed # <<>>

\* the ScoreEntries of candidates for one (review_id, perspective) pair
PairEntries(candidates, review_id, perspective) ==
    UNION { { <<k, j>> : j \in { j \in 1..Len(candidates[k].score) :
                                    candidates[k].score[j].perspective = perspective } } :
            k \in { k \in 1..Len(candidates) : candidates[k].review_id = review_id } }

JobFailed(i) ==
    /\ s_outcomes[i] # <<>>
    /\ \A c \in 1..Len(s_outcomes[i]) : s_outcomes[i][c] = "raise"

\* what job i alone produced
JobResult(i) == process_single_criteria_sync(s_criteria[i], s_reviews, s_outcomes[i])[1].v

\* C4: process_all_perspectives returns, for each input review and each
\* criterion type, exactly one ScoreEntry, whatever the size of the reviews and
\* the backend outcomes; when every backend call failed, each score is 50.
C4_ScorerTotalCoverage ==
    ThreadReturned =>
        \A r \in 1..Len(s_reviews) : \A t \in Range(s_criteria) :
            LET entries == PairEntries(s_thread_ret, s_reviews[r].id, t)
            IN  /\ Cardinality(entries) = 1
                /\ (\A i \in Jobs : JobFailed(i)) =>
                        \A e \in entries : s_thread_ret[e[1]].score[e[2]].score = DefaultScore

\* C5: when the job of one criterion type fails, every input review has one
\* ScoreEntry with score 50 for that type, and the results of the jobs of the
\* other types are what those jobs produced.
C5_FailedJobIsolated ==
    ThreadReturned =>
        \A i \in Jobs :
            (JobFailed(i) /\ \A j \in Jobs \ {i} : s_criteria[j] # s_criteria[i]) =>
                /\ \A r \in 1..Len(s_reviews) :
                    LET entries == PairEntries(s_thread_ret, s_reviews[r].id, s_criteria[i])
                    IN  /\ Cardinality(entries) = 1
                        /\ \A e \in entries :
                              s_thread_ret[e[1]].score[e[2]].score = DefaultScore
                /\ \A j \in Jobs \ {i} :
                      DictGet(all_results, s_criteria[j]) = JobResult(j)

PosInReviews(review_id) == CHOOSE r \in 1..Len(s_reviews) : s_reviews[r].id = review_id

\* C6: the candidates returned by process_all_perspectives name reviews of
\* filtered_reviews in the order of filtered_reviews, for every completion
\* order of the jobs.
C6_CandidateOrderFollowsInput ==
    ThreadReturned =>
        /\ \A k \in 1..Len(s_thread_ret) :
              \E r \in 1..Len(s_reviews) : s_reviews[r].id = s_thread_ret[k].review_id
        /\ \A a, b \in 1..Len(s_thread_ret) :
              a < b => PosInReviews(s_thread_ret[a].review_id)
                           < PosInReviews(s_thread_ret[b].review_id)

\* the jobs completed in another order than they were submitted, and two
\* reviews were merged
C6_Witness ==
    /\ ThreadReturned
    /\ s_completed = <<2, 1>>
    /\ s_criteria[1] # s_criteria[2]
    /\ Len(s_thread_ret) >= 2

\* C7: for a list of distinct criterion types, the async version returns one
\* Candidate per input review, in input order, whose score list holds one
\* ScoreEntry per criterion type.
C7_AsyncSameContract ==
    (/\ s_entry = "async" /\ ~s_sched_failed /\ s_pc \in {"return", "done"}
     /\ \A i, j \in Jobs : i # j => s_criteria[i] # s_criteria[j]) =>
        /\ Len(s_ret) = Len(s_reviews)
        /\ \A k \in 1..Len(s_ret) :
            /\ k <= Len(s_reviews) => s_ret[k].review_id = s_reviews[k].id
            /\ \A t \in Range(s_criteria) :
                  Cardinality({j \in 1..Len(s_ret[k].score) :
                                  s_ret[k].score[j].perspective = t}) = 1

C9_OneEntryPerPair ==
    /\ \A r \in 1..Len(s_reviews) : \A t \in Range(s_criteria) :
          Cardinality(PairEntries(st_candidates, s_reviews[r].id, t)) <= 1
    /\ (s_pc = "done" /\ ThreadReturned /\ Len(s_criteria) = 2
            /\ s_criteria[1] = s_criteria[2]) =>
          \A k \in 1..Len(st_candidates) : \A j \in 1..Len(st_candidates[k].score) :
              LET key == IntKey(st_candidates[k].review_id)
              IN  2 * st_candidates[k].score[j].score
                      = DictGet(JobResult(1), key).score + DictGet(JobResult(2), key).score

\* ======================================================================
\* LLMQueryCache on the file system: cache.py
\* ======================================================================

\* Concurrent workers call save_result and get_cached_result for one cache
\* key. The directory maps the two names of the entry, "tmp"
\* (cache_file.with_suffix('.tmp')) and "final" (<key>.json), to an inode,
\* NoInode when the name does not exist. A file is a sequence of blocks.
NoInode == 0

InodeIds == 1..3

Writers == {1, 2}

CacheResults == { <<"a", "b">>, <<"c">>, <<"c", "d">> }

\* json.dump(cache_data, f): the document of a result
Doc(result) == <<"{">> \o result \o <<"}">>

\* json.load and the two .get calls: the result of a complete document, an
\* exception (answered with None) for anything else
IsDoc(content) ==
    /\ Len(content) >= 2
    /\ content[1] = "{"
    /\ content[Len(content)] = "}"
    /\ \A i \in 2..(Len(content) - 1) : content[i] \notin {"{", "}", "nul"}

NoneRet == [kind |-> "none", result |-> <<>>]

Pending == [kind |-> "pending", result |-> <<>>]

Hit(result) == [kind |-> "hit", result |-> result]

Load(content) ==
    IF IsDoc(content) THEN Hit(SubSeq(content, 2, Len(content) - 1)) ELSE NoneRet

\* write(2) of blocks at an offset of a file; a write past the end leaves a
\* hole of zero bytes
WriteAt(content, offset, blocks) ==
    LET end == offset + Len(blocks)
        len == IF end > Len(content) THEN end ELSE Len(content)
    IN  [i \in 1..len |->
            IF i > offset /\ i <= end THEN blocks[i - offset]
            ELSE IF i <= Len(content) THEN content[i]
            ELSE "nul"]

CacheInit ==
    /\ \E existing \in BOOLEAN :
        /\ fs_dir = [n \in {"tmp", "final"} |->
                        IF n = "final" /\ existing THEN 3 ELSE NoInode]
        /\ fs_inodes = [i \in InodeIds |-> IF i = 3 /\ existing THEN Doc(<<"z">>) ELSE <<>>]
        /\ c_saved = IF existing THEN {<<"z">>} ELSE {}
    /\ fs_next = 1
    /\ w_pc = [w \in Writers |-> "start"]
    /\ w_result \in [Writers -> CacheResults]
    /\ w_fd = [w \in Writers |-> NoInode]
    /\ w_off = [w \in Writers |-> 0]
    /\ r_pc = "start"
    /\ r_fd = NoInode
    /\ r_read = <<>>
    /\ r_ret = Pending

\* save_result: open(temp_file, 'w') creates the file or truncates the one
\* that has the name
SaveOpen(w) ==
    /\ w_pc[w] = "start"
    /\ c_saved' = c_saved \cup {w_result[w]}
    /\ IF fs_dir["tmp"] = NoInode
       THEN /\ fs_dir' = [fs_dir EXCEPT !["tmp"] = fs_next]
            /\ fs_inodes' = [fs_inodes EXCEPT ![fs_next] = <<>>]
            /\ w_fd' = [w_fd EXCEPT ![w] = fs_next]
            /\ fs_next' = fs_next + 1
       ELSE /\ fs_inodes' = [fs_inodes EXCEPT ![fs_dir["tmp"]] = <<>>]
            /\ w_fd' = [w_fd EXCEPT ![w] = fs_dir["tmp"]]
            /\ UNCHANGED <<fs_dir, fs_next>>
    /\ w_pc' = [w_pc EXCEPT ![w] = "writing"]
    /\ UNCHANGED <<w_result, w_off, r_pc, r_fd, r_read, r_ret>>

\* json.dump writes through the buffered file: the document reaches the
\* file in one write or in several, each at the writer's own offset
SaveWrite(w) ==
    /\ w_pc[w] = "writing"
    /\ LET doc == Doc(w_result[w])
       IN  /\ w_off[w] < Len(doc)
           /\ \E n \in 1..(Len(doc) - w_off[w]) :
                /\ fs_inodes' = [fs_inodes EXCEPT ![w_fd[w]] =
                        WriteAt(@, w_off[w], SubSeq(doc, w_off[w] + 1, w_off[w] + n))]
                /\ w_off' = [w_off EXCEPT ![w] = @ + n]
    /\ UNCHANGED <<fs_dir, fs_next, c_saved, w_pc, w_result, w_fd, r_pc, r_fd, r_read, r_ret>>

\* the with block is left: the file is closed
SaveClose(w) ==
    /\ w_pc[w] = "writing"
    /\ w_off[w] = Len(Doc(w_result[w]))
    /\ w_pc' = [w_pc EXCEPT ![w] = "closed"]
    /\ UNCHANGED <<fs_dir, fs_inodes, fs_next, c_saved, w_result, w_fd, w_off,
                   r_pc, r_fd, r_read, r_ret>>

\* temp_file.rename(cache_file); FileNotFoundError is caught by save_result
SaveRename(w) ==
    /\ w_pc[w] = "closed"
    /\ fs_dir' = IF fs_dir["tmp"] = NoInode THEN fs_dir
                 ELSE [fs_dir EXCEPT !["final"] = fs_dir["tmp"], !["tmp"] = NoInode]
    /\ w_pc' = [w_pc EXCEPT ![w] = "done"]
    /\ UNCHANGED <<fs_inodes, fs_next, c_saved, w_result, w_fd, w_off,
                   r_pc, r_fd, r_read, r_ret>>

\* get_cached_result: _is_cache_valid on an entry younger than the TTL,
\* then open(cache_file, 'r')
GetOpen ==
    /\ r_pc = "start"
    /\ IF fs_dir["final"] = NoInode
       THEN r_pc' = "done" /\ r_ret' = NoneRet /\ r_fd' = r_fd
       ELSE r_pc' = "opened" /\ r_ret' = r_ret /\ r_fd' = fs_dir["final"]
    /\ UNCHANGED <<fs_dir, fs_inodes, fs_next, c_saved, w_pc, w_result, w_fd, w_off, r_read>>

\* json.load(f) and the return
GetLoad ==
    /\ r_pc = "opened"
    /\ r_read' = fs_inodes[r_fd]
    /\ r_ret' = Load(fs_inodes[r_fd])
    /\ r_pc' = "done"
    /\ UNCHANGED <<fs_dir, fs_inodes, fs_next, c_saved, w_pc, w_result, w_fd, w_off, r_fd>>

CacheNext ==
    \/ (\E w \in Writers : SaveOpen(w)) /\ UNCHANGED <<gate_vars, pipe_vars, score_vars, store_vars, fuse_vars, build_vars>>
    \/ (\E w \in Writers : SaveWrite(w)) /\ UNCHANGED <<gate_vars, pipe_vars, score_vars, store_vars, fuse_vars, build_vars>>
    \/ (\E w \in Writers : SaveClose(w)) /\ UNCHANGED <<gate_vars, pipe_vars, score_vars, store_vars, fuse_vars, build_vars>>
    \/ (\E w \in Writers : SaveRename(w)) /\ UNCHANGED <<gate_vars, pipe_vars, score_vars, store_vars, fuse_vars, build_vars>>
    \/ GetOpen /\ UNCHANGED <<gate_vars, pipe_vars, score_vars, store_vars, fuse_vars, build_vars>>
    \/ GetLoad /\ UNCHANGED <<gate_vars, pipe_vars, score_vars, store_vars, fuse_vars, build_vars>>

CacheSpecInit == CacheInit /\ GateIdle /\ PipeIdle /\ ScoreIdle /\ StoreIdle /\ FuseIdle /\ BuildIdle

CacheSpec == CacheSpecInit /\ [][CacheNext]_vars

\* C10: under every interleaving of save_result and get_cached_result calls
\* for one key, get_cached_result returns None or a result that was passed to
\* save_result, and the document it read under the final name is complete.
C10_CacheReadsComplete ==
    /\ r_ret.kind = "hit" => r_ret.result \in c_saved
    /\ (r_pc = "done" /\ r_fd # NoInode) => r_read \in {Doc(result) : result \in c_saved}

\* ======================================================================
\* LLMQueryCache entry by entry: keys, TTL, lookup, sweep (cache.py)
\* ======================================================================

\* ---- the cache key ----

\* metadata.sort(): the (id, createdAt) tuples in ascending order
SortMetadata(metadata) ==
    LET n == Len(metadata)
        TupleLessEq(x, y) == x[1] < y[1] \/ (x[1] = y[1] /\ x[2] <= y[2])
        p == CHOOSE f \in [1..n -> 1..n] :
                /\ \A i, j \in 1..n : i # j => f[i] # f[j]
                /\ \A i \in 1..(n - 1) : TupleLessEq(metadata[f[i]], metadata[f[i + 1]])
    IN  [i \in 1..n |-> metadata[p[i]]]

\* the metadata hashed in the order of the reviews
HashReviewsInInputOrder(reviews) ==
    IF reviews = <<>> THEN [empty |-> TRUE, metadata |-> <<>>]
    ELSE [empty |-> FALSE,
          metadata |-> [i \in 1..Len(reviews) |-> <<reviews[i].id, reviews[i].createdAt>>]]

\* _hash_reviews(reviews). The md5 digest is taken to be free of collisions:
\* it is stood for by what was hashed.
hash_reviews(reviews) ==
    IF reviews = <<>> THEN [empty |-> TRUE, metadata |-> <<>>]
    ELSE [empty |-> FALSE,
          metadata |-> SortMetadata([i \in 1..Len(reviews) |->
                                        <<reviews[i].id, reviews[i].createdAt>>])]

\* _generate_cache_key(llm_name, reviews, focus_instruction, candidate_count)
generate_cache_key(llm_name, reviews, focus_instruction, candidate_count) ==
    [llm |-> llm_name, reviews |-> hash_reviews(reviews),
     focus |-> focus_instruction, count |-> candidate_count]

\* ---- Python values and their JSON documents ----

\* A Python value: t is "list", "tuple", "dict", "item" (a key and a value of
\* a dict), "str", "int" (s: its digits) or "datetime" (s: its isoformat()).
Py(t, s, items) == [t |-> t, s |-> s, items |-> items]

\* json.dump(..., default=json_serializer): lists and tuples become arrays,
\* the keys of a dict become strings, a datetime becomes the string of its
\* isoformat()
RECURSIVE JsonDump(_)
JsonDump(v) ==
    IF v.t \in {"list", "tuple"}
    THEN Py("array", "", [i \in 1..Len(v.items) |-> JsonDump(v.items[i])])
    ELSE IF v.t = "dict"
    THEN Py("object", "",
            [i \in 1..Len(v.items) |->
                Py("member", v.items[i].items[1].s, <<JsonDump(v.items[i].items[2])>>)])
    ELSE IF v.t = "int" THEN Py("number", v.s, <<>>)
    ELSE Py("string", v.s, <<>>)

\* json.load
RECURSIVE JsonLoad(_)
JsonLoad(j) ==
    IF j.t = "array" THEN Py("list", "", [i \in 1..Len(j.items) |-> JsonLoad(j.items[i])])
    ELSE IF j.t = "object"
    THEN Py("dict", "",
            [i \in 1..Len(j.items) |->
                Py("item", "", <<Py("str", j.items[i].s, <<>>), JsonLoad(j.items[i].items[1])>>)])
    ELSE IF j.t = "number" THEN Py("int", j.s, <<>>)
    ELSE Py("str", j.s, <<>>)

\* ---- the entries ----

\* model bounds: the TTL (ttl_hours * 3600, scaled down), the clock, and the
\* number of calls explored in one run
TtlSeconds == 1
MaxTime == 2
MaxOps == 3

\* The file of an entry: "absent", a JSON "doc" with a version and a result,
\* "garbage" (not JSON) or "unreadable" (open raises).
NoFile ==
    [state |-> "absent", version |-> "", result |-> JsonDump(Py("list", "", <<>>)),
     mtime |-> 0]

\* an entry that has a file never expires
IsCacheValidWithoutTtl(file, now) == file.state # "absent"

\* _is_cache_valid(cache_file)
is_cache_valid(file, now) ==
    IF file.state = "absent" THEN FALSE
    ELSE IF now - file.mtime > TtlSeconds THEN FALSE
    ELSE TRUE

\* what get_cached_result gives when it returns None
KNone == [kind |-> "none", result |-> Py("list", "", <<>>)]

\* get_cached_result without its except clause: an error of open or of
\* json.load reaches the caller
GetCachedResultUncaught(file, now) ==
    IF ~is_cache_valid(file, now) THEN KNone
    ELSE IF file.state \in {"unreadable", "garbage"}
    THEN [kind |-> "raised", result |-> Py("list", "", <<>>)]
    ELSE IF file.version # "1.0" THEN KNone
    ELSE [kind |-> "hit", result |-> JsonLoad(file.result)]

\* get_cached_result, given the file under the key: open or json.load raising
\* is caught and None returned
get_cached_result(file, now) ==
    IF ~is_cache_valid(file, now) THEN KNone
    ELSE IF file.state \in {"unreadable", "garbage"} THEN KNone
    ELSE IF file.version # "1.0" THEN KNone
    ELSE [kind |-> "hit", result |-> JsonLoad(file.result)]

\* the document stays in the temporary file
SaveResultWithoutRename(files, key, result, now) == files

\* save_result: the document is renamed over the entry's file
save_result(files, key, result, now) ==
    [files EXCEPT ![key] = [state |-> "doc", version |-> "1.0",
                            result |-> JsonDump(result), mtime |-> now]]

\* clear_expired_cache: the loop over glob("*.json") in the order the
\* directory yields the files; unlink raises for the files in failing, and
\* the exception leaves the loop
RECURSIVE clear_expired_cache(_, _, _, _, _)
clear_expired_cache(files, now, order, failing, cleared_count) ==
    IF order = <<>> THEN [files |-> files, count |-> cleared_count]
    ELSE LET key == Head(order)
         IN  IF is_cache_valid(files[key], now)
             THEN clear_expired_cache(files, now, Tail(order), failing, cleared_count)
             ELSE IF key \in failing
             THEN [files |-> files, count |-> cleared_count]
             ELSE clear_expired_cache([files EXCEPT ![key] = NoFile], now, Tail(order),
                                      failing, cleared_count + 1)

\* ---- the inputs ----

\* (llm_name, reviews) of the calls: one review set in two orders, holding
\* two rows of one id, and another set; the focus instruction is the same
\* for every selector and candidate_count is the default
StoreArgs ==
    LET r1 == [id |-> 1, createdAt |-> 2]
        r1b == [id |-> 1, createdAt |-> 1]
        r2 == [id |-> 2, createdAt |-> 1]
    IN  { [llm |-> "gpt_o_4_mini", reviews |-> <<r1, r1b, r2>>],
          [llm |-> "gpt_o_4_mini", reviews |-> <<r2, r1, r1b>>],
          [llm |-> "gpt_4_1_nano", reviews |-> <<r1>>] }

StoreKey(arg) == generate_cache_key(arg.llm, arg.reviews, "focus", 3)

StoreKeys == { StoreKey(arg) : arg \in StoreArgs }

\* a fetched row as a dict: its createdAt is a datetime
RowItems(review) ==
    << Py("item", "", <<Py("str", "id", <<>>), Py("int", <<"1", "2", "3">>[review.id], <<>>)>>),
       Py("item", "", <<Py("str", "createdAt", <<>>),
                        Py("datetime", <<"2024-01-01T00:00:00",
                                         "2024-01-02T00:00:00">>[review.createdAt], <<>>)>>) >>

ScoreItem(score) == Py("item", "", <<Py("str", "score", <<>>), Py("int", score, <<>>)>>)

\* results handed to save_result: the empty list, a list of a dict of strings
\* and ints, a list of a fetched row with its score, a list holding a tuple
StoreResults ==
    { Py("list", "", <<>>),
      Py("list", "", <<Py("dict", "", <<ScoreItem("90")>>)>>),
      Py("list", "", <<Py("dict", "", RowItems([id |-> 1, createdAt |-> 2])
                                         \o <<ScoreItem("90")>>)>>),
      Py("list", "", <<Py("tuple", "", <<Py("int", "1", <<>>), Py("int", "90", <<>>)>>)>>) }

\* ---- llm_selector_node on the entry store ----

\* what the selection backend does when it is called: it answers with
\* candidates (id, score), or the call raises
StoreBackendAnswers ==
    { [raised |-> TRUE, candidates |-> <<>>] } \cup
    { [raised |-> FALSE, candidates |-> c] :
        c \in { <<[id |-> 1, score |-> "90"]>>,
                <<[id |-> 2, score |-> "50"], [id |-> 3, score |-> "60"]>> } }

\* final_selected_reviews: for each candidate whose id is in
\* selected_reviews_map (the last row of each id), the row with the score
RECURSIVE SelectedRows(_, _)
SelectedRows(reviews, candidates) ==
    IF candidates = <<>> THEN <<>>
    ELSE LET c == Head(candidates)
             rest == SelectedRows(reviews, Tail(candidates))
             last == CHOOSE i \in 1..Len(reviews) :
                        /\ reviews[i].id = c.id
                        /\ \A j \in (i + 1)..Len(reviews) : reviews[j].id # c.id
         IN  IF \E i \in 1..Len(reviews) : reviews[i].id = c.id
             THEN <<Py("dict", "", RowItems(reviews[last]) \o <<ScoreItem(c.score)>>)>> \o rest
             ELSE rest

\* a selector that does not look the cache up
LlmSelectorNodeWithoutLookup(files, now, llm, reviews, answer) ==
    LET key == generate_cache_key(llm, reviews, "focus", 3)
        final_selected_reviews == Py("list", "", SelectedRows(reviews, answer.candidates))
    IN  IF reviews = <<>>
        THEN [ret |-> Py("list", "", <<>>), backend |-> FALSE, lookup |-> KNone,
              files |-> files]
        ELSE IF answer.raised
        THEN [ret |-> Py("list", "", <<>>), backend |-> TRUE, lookup |-> KNone,
              files |-> files]
        ELSE [ret |-> final_selected_reviews, backend |-> TRUE, lookup |-> KNone,
              files |-> save_result(files, key, final_selected_reviews, now)]

\* a selector that stores the empty list when the backend call raises
LlmSelectorNodeSavingFailure(files, now, llm, reviews, answer) ==
    LET key == generate_cache_key(llm, reviews, "focus", 3)
        cached_result == get_cached_result(files[key], now)
        final_selected_reviews ==
            IF answer.raised THEN Py("list", "", <<>>)
            ELSE Py("list", "", SelectedRows(reviews, answer.candidates))
    IN  IF reviews = <<>>
        THEN [ret |-> Py("list", "", <<>>), backend |-> FALSE, lookup |-> KNone,
              files |-> files]
        ELSE IF cached_result.kind # "none"
        THEN [ret |-> cached_result.result, backend |-> FALSE, lookup |-> cached_result,
              files |-> files]
        ELSE [ret |-> final_selected_reviews, backend |-> TRUE, lookup |-> cached_result,
              files |-> save_result(files, key, final_selected_reviews, now)]

\* llm_selector_node: what it returns, whether it called the backend, what
\* the lookup gave and the files it leaves; answer is what the backend does
\* when it is called
llm_selector_node(files, now, llm, reviews, answer) ==
    LET key == generate_cache_key(llm, reviews, "focus", 3)
        cached_result == get_cached_result(files[key], now)
        final_selected_reviews == Py("list", "", SelectedRows(reviews, answer.candidates))
    IN  IF reviews = <<>>
        THEN [ret |-> Py("list", "", <<>>), backend |-> FALSE, lookup |-> KNone,
              files |-> files]
        ELSE IF cached_result.kind # "none"
        THEN [ret |-> cached_result.result, backend |-> FALSE, lookup |-> cached_result,
              files |-> files]
        ELSE IF answer.raised
        THEN [ret |-> Py("list", "", <<>>), backend |-> TRUE, lookup |-> cached_result,
              files |-> files]
        ELSE [ret |-> final_selected_reviews, backend |-> TRUE, lookup |-> cached_result,
              files |-> save_result(files, key, final_selected_reviews, now)]

\* ---- the calls ----

\* The record of a call: its arguments (arg, result), what the lookup gave
\* (ret), what a selector returned (result), whether the backend was called
\* and answered, the time, and for a sweep the order of the directory, the
\* files whose unlink raises, the entries expired before it and its count.
NoCall ==
    [op |-> "none", arg |-> [llm |-> "", reviews |-> <<>>],
     result |-> Py("list", "", <<>>), ret |-> KNone, backend |-> FALSE, answered |-> FALSE,
     at |-> 0, order |-> <<>>, failing |-> {}, expired |-> {}, count |-> 0]

StoreInit ==
    /\ k_files = [key \in StoreKeys |-> NoFile]
    /\ k_now = 0
    /\ k_ops = 0
    /\ k_prev = NoCall
    /\ k_last = NoCall

Called(call) ==
    /\ k_ops < MaxOps
    /\ k_ops' = k_ops + 1
    /\ k_prev' = k_last
    /\ k_last' = [call EXCEPT !.at = k_now]
    /\ k_now' = k_now

SaveResult ==
    \E arg \in StoreArgs, result \in StoreResults :
        /\ k_files' = save_result(k_files, StoreKey(arg), result, k_now)
        /\ Called([NoCall EXCEPT !.op = "save", !.arg = arg, !.result = result])

GetCachedResult ==
    \E arg \in StoreArgs :
        /\ k_files' = k_files
        /\ Called([NoCall EXCEPT !.op = "get", !.arg = arg,
                                 !.ret = get_cached_result(k_files[StoreKey(arg)], k_now)])

LlmSelectorNode ==
    \E arg \in StoreArgs \cup {[llm |-> "gpt_4_1_nano", reviews |-> <<>>]},
       answer \in StoreBackendAnswers :
        LET out == llm_selector_node(k_files, k_now, arg.llm, arg.reviews, answer)
        IN  /\ k_files' = out.files
            /\ Called([NoCall EXCEPT !.op = "select", !.arg = arg, !.result = out.ret,
                                     !.ret = out.lookup, !.backend = out.backend,
                                     !.answered = (out.backend /\ ~answer.raised)])

\* glob("*.json"): the entries that have a file
Listing(files) == {key \in StoreKeys : files[key].state # "absent"}

ClearExpiredCache ==
    LET keys == Listing(k_files)
        n == Cardinality(keys)
    IN  \E order \in {o \in [1..n -> keys] : \A i, j \in 1..n : i # j => o[i] # o[j]},
           failing \in SUBSET keys :
            LET out == clear_expired_cache(k_files, k_now, order, failing, 0)
            IN  /\ Cardinality(failing) <= 1
                /\ k_files' = out.files
                /\ Called([NoCall EXCEPT
                        !.op = "clear", !.order = order, !.failing = failing,
                        !.expired = {key \in keys : ~is_cache_valid(k_files[key], k_now)},
                        !.count = out.count])

\* something else than save_result leaves a file under an entry's name: a
\* document of another schema version, a truncated document, a file that
\* cannot be opened
DamageFile ==
    \E key \in Listing(k_files), kind \in {"version", "garbage", "unreadable"} :
        /\ k_files' = [k_files EXCEPT ![key] =
                IF kind = "version" THEN [@ EXCEPT !.version = "0.9"]
                ELSE [@ EXCEPT !.state = kind]]
        /\ Called([NoCall EXCEPT !.op = "damage", !.order = <<key>>])

\* time passes
Tick ==
    /\ k_now < MaxTime
    /\ k_now' = k_now + 1
    /\ UNCHANGED <<k_files, k_ops, k_prev, k_last>>

StoreNext ==
    \/ SaveResult /\ UNCHANGED <<gate_vars, pipe_vars, score_vars, cache_vars, fuse_vars, build_vars>>
    \/ GetCachedResult /\ UNCHANGED <<gate_vars, pipe_vars, score_vars, cache_vars, fuse_vars, build_vars>>
    \/ LlmSelectorNode /\ UNCHANGED <<gate_vars, pipe_vars, score_vars, cache_vars, fuse_vars, build_vars>>
    \/ ClearExpiredCache /\ UNCHANGED <<gate_vars, pipe_vars, score_vars, cache_vars, fuse_vars, build_vars>>
    \/ DamageFile /\ UNCHANGED <<gate_vars, pipe_vars, score_vars, cache_vars, fuse_vars, build_vars>>
    \/ Tick /\ UNCHANGED <<gate_vars, pipe_vars, score_vars, cache_vars, fuse_vars, build_vars>>

StoreSpecInit == StoreInit /\ GateIdle /\ PipeIdle /\ ScoreIdle /\ CacheIdle /\ FuseIdle /\ BuildIdle

StoreSpec == StoreSpecInit /\ [][StoreNext]_vars

\* ======================================================================
\* Properties of the entry store
\* ======================================================================

\* r2 holds the reviews of r1 in another order
IsReordering(r1, r2) ==
    /\ Len(r1) = Len(r2)
    /\ \E f \in [1..Len(r1) -> 1..Len(r1)] :
        /\ \A i, j \in 1..Len(r1) : i # j => f[i] # f[j]
        /\ \A i \in 1..Len(r1) : r2[i] = r1[f[i]]

\* C11: the key of a review list equals the key of any reordering of it
\* (same llm_name, focus instruction and candidate_count), so a result saved
\* for the list is found by a lookup for the reordering made within the TTL.
C11_KeyIgnoresReviewOrder ==
    /\ \A a, b \in StoreArgs :
            (a.llm = b.llm /\ IsReordering(a.reviews, b.reviews))
                => StoreKey(a) = StoreKey(b)
    /\ ( /\ k_prev.op = "save"
         /\ k_last.op = "get"
         /\ k_last.arg.llm = k_prev.arg.llm
         /\ IsReordering(k_prev.arg.reviews, k_last.arg.reviews)
         /\ k_last.at - k_prev.at <= TtlSeconds )
            => k_last.ret.kind = "hit"

\* a result saved for a review list was found by the lookup for the list in
\* another order
C11_Witness ==
    /\ k_prev.op = "save"
    /\ k_last.op = "get"
    /\ k_last.arg.llm = k_prev.arg.llm
    /\ k_last.arg.reviews # k_prev.arg.reviews
    /\ IsReordering(k_prev.arg.reviews, k_last.arg.reviews)
    /\ k_last.ret.kind = "hit"

\* the last two calls are a save_result and, with no time passed, a
\* get_cached_result for the same key
SavedThenLookedUp ==
    /\ k_prev.op = "save"
    /\ k_last.op = "get"
    /\ StoreKey(k_last.arg) = StoreKey(k_prev.arg)
    /\ k_last.at = k_prev.at

\* v is made of lists, dicts with string keys, strings and ints only
RECURSIVE IsJsonNative(_)
IsJsonNative(v) ==
    IF v.t \in {"str", "int"} THEN TRUE
    ELSE IF v.t = "list" THEN \A i \in 1..Len(v.items) : IsJsonNative(v.items[i])
    ELSE IF v.t = "dict"
    THEN \A i \in 1..Len(v.items) :
            /\ v.items[i].items[1].t = "str"
            /\ IsJsonNative(v.items[i].items[2])
    ELSE FALSE

\* C12 as stated: save_result followed immediately by get_cached_result for
\* the same key returns the saved result unchanged.
C12_RoundTripUnchanged ==
    SavedThenLookedUp => k_last.ret = [kind |-> "hit", result |-> k_prev.result]

\* C12, amended: save_result followed immediately by get_cached_result for
\* the same key returns the JSON round trip of the saved result (tuples come
\* back as lists, datetimes as their isoformat strings, dict keys as
\* strings); a result made of lists, string-keyed dicts, strings and ints,
\* the empty list included, comes back unchanged.
C12_RoundTripModuloJson ==
    SavedThenLookedUp =>
        /\ k_last.ret = [kind |-> "hit", result |-> JsonLoad(JsonDump(k_prev.result))]
        /\ IsJsonNative(k_prev.result) => k_last.ret.result = k_prev.result

\* a non-empty result came back unchanged
C12_Witness ==
    /\ SavedThenLookedUp
    /\ k_prev.result.items # <<>>
    /\ k_last.ret = [kind |-> "hit", result |-> k_prev.result]

\* the file the last get_cached_result looked up, and its age at the call
LookedUpFile == k_files[StoreKey(k_last.arg)]

LookedUpAge == k_last.at - LookedUpFile.mtime

\* C13: an entry whose age, counted from the modification time of its file,
\* is greater than ttl_seconds is a miss for get_cached_result; an entry
\* (a version 1.0 document) whose age is less than ttl_seconds is a hit.
C13_TtlBoundary ==
    (k_last.op = "get" /\ LookedUpFile.state # "absent") =>
        /\ LookedUpAge > TtlSeconds => k_last.ret = KNone
        /\ ( /\ LookedUpAge < TtlSeconds
             /\ LookedUpFile.state = "doc"
             /\ LookedUpFile.version = "1.0" ) => k_last.ret.kind = "hit"

\* a lookup missed a well-formed entry because it was older than the TTL
C13_Witness ==
    /\ k_last.op = "get"
    /\ LookedUpFile.state = "doc"
    /\ LookedUpFile.version = "1.0"
    /\ LookedUpAge > TtlSeconds
    /\ k_last.ret = KNone

\* C14: get_cached_result returns None, and raises nothing, whenever the
\* entry has no file, its file cannot be opened, is not JSON, or holds a
\* document of another version than "1.0".
C14_LookupFailsOpen ==
    ( /\ k_last.op = "get"
      /\ \/ LookedUpFile.state \in {"absent", "unreadable", "garbage"}
         \/ LookedUpFile.version # "1.0" )
        => k_last.ret = KNone

\* a lookup within the TTL of an entry whose file is not a version 1.0
\* document returned None
C14_Witness ==
    /\ k_last.op = "get"
    /\ LookedUpAge <= TtlSeconds
    /\ \/ LookedUpFile.state \in {"unreadable", "garbage"}
       \/ LookedUpFile.state = "doc" /\ LookedUpFile.version # "1.0"
    /\ k_last.ret = KNone

\* C15: clear_expired_cache removes every entry older than the TTL and
\* returns the number of entries removed; a file whose removal fails is
\* skipped, and every other expired entry is still removed and counted.
C15_SweepSkipsFailures ==
    k_last.op = "clear" =>
        /\ \A key \in k_last.expired \ k_last.failing : k_files[key].state = "absent"
        /\ k_last.count = Cardinality(k_last.expired \ k_last.failing)

\* clear_expired_cache when no removal fails: every expired entry is removed
\* and counted, every other entry is left
C15_SweepWithoutFailures ==
    (k_last.op = "clear" /\ k_last.failing = {}) =>
        /\ \A key \in k_last.expired : k_files[key].state = "absent"
        /\ k_last.count = Cardinality(k_last.expired)

\* the last two calls are runs of one selector on the same review set, in
\* any order, the second within the TTL of the first
SelectedTwice ==
    /\ k_prev.op = "select"
    /\ k_last.op = "select"
    /\ k_last.arg.llm = k_prev.arg.llm
    /\ IsReordering(k_prev.arg.reviews, k_last.arg.reviews)
    /\ k_last.at - k_prev.at <= TtlSeconds

\* C16: a selector calls the backend only when its lookup missed, and then,
\* when the backend answered, leaves its selection under the key it looked
\* up; a later run of the selector on the same review set (in any order)
\* within the TTL returns the stored selection (as the cache returns it:
\* after its JSON round trip) and makes no backend call.
C16_SelectorUsesCache ==
    /\ k_last.op = "select" =>
        /\ k_last.backend <=> (k_last.arg.reviews # <<>> /\ k_last.ret = KNone)
        /\ k_last.ret.kind = "hit" => k_last.result = k_last.ret.result
        /\ k_last.answered =>
                k_files[StoreKey(k_last.arg)] =
                    [state |-> "doc", version |-> "1.0",
                     result |-> JsonDump(k_last.result), mtime |-> k_last.at]
    /\ (SelectedTwice /\ k_prev.answered) =>
        /\ ~k_last.backend
        /\ k_last.result = JsonLoad(JsonDump(k_prev.result))

\* a selector whose backend answered ran again on the reviews in another
\* order and returned the stored selection without a backend call
C16_Witness ==
    /\ SelectedTwice
    /\ k_prev.answered
    /\ k_prev.result.items # <<>>
    /\ k_last.arg.reviews # k_prev.arg.reviews
    /\ ~k_last.backend
    /\ k_last.result = JsonLoad(JsonDump(k_prev.result))

\* ======================================================================
\* Properties of the selector fan-in
\* ======================================================================

\* the scores the selectors reported for id, in order of arrival
ReportedScores(selected, id) ==
    [i \in 1..Len(selected) |-> IF selected[i].id = id THEN selected[i].score ELSE 0]

ReportedCount(selected, id) ==
    Cardinality({i \in 1..Len(selected) : selected[i].id = id})

\* C17: in the result of aggregate_best_node every selected review id
\* appears once, and the score its record carries is the arithmetic mean of
\* all the scores the selectors reported for the id.
C17_MergedScoreIsMean ==
    LET best == Get(p_state, "aggregated_best_reviews", <<>>)
        selected == p_state["selected_reviews"]
    IN  /\ \A i, j \in 1..Len(best) : i # j => best[i].id # best[j].id
        /\ \A i \in 1..Len(best) :
                best[i].score * ReportedCount(selected, best[i].id)
                    = SumSeq(ReportedScores(selected, best[i].id))

\* the updates written so far in this superstep all come from selectors
SelectorsWrote ==
    /\ Len(p_writes) >= 1
    /\ \A i \in 1..Len(p_writes) : p_writes[i].node \in Selectors

\* the merged ids with their averaged scores, when the updates of writes are
\* applied to the state in this order
MergedAfter(writes) ==
    Range(GroupedCandidates(ApplyWrites(p_state, writes)["selected_reviews"]))

\* C18: for every order in which the selectors' outputs arrive at the
\* reducer of selected_reviews, the grouping of aggregate_best_node gives the
\* same set of ids and the same averaged score for each id.
C18_FanInOrderIndependent ==
    SelectorsWrote =>
        \A f \in [1..Len(p_writes) -> 1..Len(p_writes)] :
            (\A i, j \in 1..Len(p_writes) : i # j => f[i] # f[j])
                => MergedAfter([i \in 1..Len(p_writes) |-> p_writes[f[i]]])
                        = MergedAfter(p_writes)

\* two selectors reported different scores for one id
C18_Witness ==
    /\ SelectorsWrote
    /\ \E i, j \in 1..Len(p_writes) :
        /\ i < j
        /\ \E a \in Range(p_writes[i].update["selected_reviews"]),
              b \in Range(p_writes[j].update["selected_reviews"]) :
                a.id = b.id /\ a.score # b.score
    /\ \E c \in MergedAfter(p_writes) : c.score[2] = 2

\* C19: the selected_reviews list one selector returns holds between 0 and
\* candidate_count reviews, each with one score, whatever the backend
\* answers and whatever the cache holds.
C19_SelectionWithinCount ==
    \A i \in 1..Len(p_writes) :
        p_writes[i].node \in Selectors =>
            /\ Len(p_writes[i].update["selected_reviews"])
                    <= Get(p_state, "candidate_count", 3)
            /\ \A r \in Range(p_writes[i].update["selected_reviews"]) :
                    "score" \in DOMAIN r

\* C20: every score that enters the pipeline state lies in 0..100: here,
\* each score a selector attaches to a review of selected_reviews.
C20_SelectorScoresWithinRange ==
    \A r \in Range(p_state["selected_reviews"]) : r.score \in 0..100

\* the other half of C20: each score entry the perspective scorer puts into
\* candidates (parsed, defaulted, or produced by the async path) lies in
\* 0..100
C20_ScorerScoresWithinRange ==
    \A c \in Range(st_candidates) : \A e \in Range(c.score) : e.score \in 0..100

(***************************************************************************)
(* fuse_candidates_implementation.  The repository holds two functions of  *)
(* this name: nodes/fusion.py (the one config.py registers) and graph.py   *)
(* (the one the graph of graph.py runs).  avg_score, a float quotient of   *)
(* two ints, is kept as the exact fraction <<sum, len>>.                   *)
(***************************************************************************)

\* the [:10] of both implementations
FuseTopK == 10

\* sorted(..., key=avg_score, reverse=True): descending, and stable (records
\* of equal avg_score keep their order)
RECURSIVE SortByAvgScore(_)
SortByAvgScore(cands) ==
    IF cands = <<>> THEN <<>>
    ELSE LET init == SortByAvgScore(SubSeq(cands, 1, Len(cands) - 1))
             c == cands[Len(cands)]
             Less(a, b) == a[1] * b[2] < b[1] * a[2]
             \* c goes behind every record whose avg_score is not less than its own
             k == Cardinality({i \in 1..Len(init) : ~Less(init[i].avg_score, c.avg_score)})
         IN  SubSeq(init, 1, k) \o <<c>> \o SubSeq(init, k + 1, Len(init))

\* the ranking of both implementations: nodes/fusion.py (impl "fusion")
\* leaves out the candidates without scores, graph.py (impl "graph") gives
\* them avg_score 0
FuseRank(candidates, impl) ==
    LET avg(scores) == IF scores = <<>> THEN <<0, 1>>
                       ELSE <<SumSeq([i \in 1..Len(scores) |-> scores[i].score]), Len(scores)>>
        with_avg(c) == [review_id |-> c.review_id, score |-> c.score,
                        avg_score |-> avg(c.score)]
        processed_candidates ==
            IF impl = "fusion"
            THEN SelectSeq([i \in 1..Len(candidates) |-> with_avg(candidates[i])],
                           LAMBDA c : c.score # <<>>)
            ELSE [i \in 1..Len(candidates) |-> with_avg(candidates[i])]
        ranked == SortByAvgScore(processed_candidates)
    IN  IF candidates = <<>> THEN <<>>
        ELSE SubSeq(ranked, 1, IF Len(ranked) < FuseTopK THEN Len(ranked) ELSE FuseTopK)

\* the raw candidates ranked, whatever approved_candidates holds
FuseRawCandidates(state, impl) == FuseRank(Get(state, "candidates", <<>>), impl)

\* fuse_candidates_implementation(state): approved_candidates, when it is
\* not empty, takes the place of candidates
fuse_candidates_implementation(state, impl) ==
    LET approved_candidates == Get(state, "approved_candidates", <<>>)
    IN  FuseRank(IF approved_candidates # <<>> THEN approved_candidates
                 ELSE Get(state, "candidates", <<>>),
                 impl)

\* candidate lists the State can hold: every list of up to three different
\* candidates out of four (two of equal avg_score 80, one without scores),
\* and a list longer than the cut
FuseCandidateLists ==
    LET pool == { Candidate(1, <<CandidateScore(80, "quality")>>),
                  Candidate(2, <<CandidateScore(60, "quality"),
                                 CandidateScore(100, "authenticity")>>),
                  Candidate(3, <<>>),
                  Candidate(4, <<CandidateScore(90, "quality")>>) }
        lists(n) == {l \in [1..n -> pool] : \A i, j \in 1..n : i # j => l[i] # l[j]}
    IN  lists(0) \cup lists(1) \cup lists(2) \cup lists(3)
        \cup { [i \in 1..(FuseTopK + 1) |->
                    Candidate(i, <<CandidateScore(50 + i, "quality")>>)] }

\* the calls: a State with candidates and, possibly, approved_candidates; the
\* implementation; the ReviewConfig of the run (max_candidates defaults to 10)
FuseInputs ==
    LET approved == { <<>>,
                      <<Candidate(4, <<CandidateScore(90, "quality")>>)>>,
                      <<Candidate(3, <<>>),
                        Candidate(5, <<CandidateScore(70, "quality")>>)>> }
        states == { [candidates |-> c] : c \in FuseCandidateLists }
                  \cup { [candidates |-> c, approved_candidates |-> a] :
                            c \in FuseCandidateLists, a \in approved }
    IN  { [state |-> s, impl |-> i, config |-> [max_candidates |-> m]] :
            s \in states, i \in {"fusion", "graph"}, m \in {1, 10} }

FuseInit ==
    /\ f_in \in FuseInputs
    /\ f_pc = "call"
    /\ f_out = <<>>

\* the node runs
FuseCandidates ==
    /\ f_pc = "call"
    /\ f_out' = fuse_candidates_implementation(f_in.state, f_in.impl)
    /\ f_pc' = "done"
    /\ UNCHANGED f_in

FuseNext ==
    FuseCandidates /\ UNCHANGED <<gate_vars, pipe_vars, score_vars, cache_vars, store_vars, build_vars>>

FuseSpecInit ==
    FuseInit /\ GateIdle /\ PipeIdle /\ ScoreIdle /\ CacheIdle /\ StoreIdle /\ BuildIdle

FuseSpec == FuseSpecInit /\ [][FuseNext]_vars

\* ======================================================================
\* Properties of fuse_candidates_implementation
\* ======================================================================

\* the candidate list the ranking is computed from
FuseUsed ==
    IF Get(f_in.state, "approved_candidates", <<>>) # <<>>
    THEN f_in.state["approved_candidates"]
    ELSE f_in.state["candidates"]

\* C21: a candidate whose score list is empty does not make the call raise,
\* has avg_score 0 and does not appear in the returned selected_candidates.
C21_EmptyScoresExcluded ==
    f_pc = "done" => \A i \in 1..Len(f_out) : f_out[i].score # <<>>

\* C21 for the function of nodes/fusion.py alone: candidates without scores
\* are left out of the result
C21_FusionModuleExcludes ==
    (f_pc = "done" /\ f_in.impl = "fusion") =>
        \A i \in 1..Len(f_out) : f_out[i].score # <<>>

\* the result is in descending order of avg_score, records of equal
\* avg_score are in the order of the candidate list, and avg_score is the
\* mean of the candidate's scores
FuseRanked ==
    LET pos(id) == CHOOSE k \in 1..Len(FuseUsed) : FuseUsed[k].review_id = id
    IN  /\ \A i \in 1..Len(f_out) :
                f_out[i].score # <<>> =>
                    f_out[i].avg_score =
                        <<SumSeq([k \in 1..Len(f_out[i].score) |-> f_out[i].score[k].score]),
                          Len(f_out[i].score)>>
        /\ \A i, j \in 1..Len(f_out) :
            i < j =>
                LET a == f_out[i].avg_score
                    b == f_out[j].avg_score
                IN  /\ a[1] * b[2] >= b[1] * a[2]
                    /\ a[1] * b[2] = b[1] * a[2]
                        => pos(f_out[i].review_id) < pos(f_out[j].review_id)

\* C22: the returned selected_candidates are in descending order of
\* avg_score, ties in input order, and hold at most K candidates, K being
\* the configured ReviewConfig.max_candidates (10 by default).
C22_TopKConfigured ==
    f_pc = "done" =>
        /\ FuseRanked
        /\ Len(f_out) <= f_in.config.max_candidates

\* C22 with the cut the code makes: at most 10 candidates, whatever
\* max_candidates is
C22_TopTenAlways ==
    f_pc = "done" =>
        /\ FuseRanked
        /\ Len(f_out) <= FuseTopK
        /\ Len(FuseUsed) > FuseTopK => Len(f_out) = FuseTopK

AugmentedNode(name, kind, destinations, conditional_edge) ==
    [name |-> name, is_start |-> (kind = "start"), is_end |-> (kind = "end"),
     destinations |-> destinations, conditional_edge |-> conditional_edge]

\* node lists create_graph is given: up to three nodes a, b, c, each a start
\* node, an end node or neither, with destinations that name a node of the
\* list or a name no node has
BuildNodeLists ==
    LET names == <<"a", "b", "c">>
        choices == [kind : {"start", "plain", "end"},
                    destinations : {<<>>, <<"b">>, <<"c", "ghost">>},
                    conditional_edge : {<<>>, <<"c">>}]
    IN  UNION { { [i \in 1..n |-> AugmentedNode(names[i], ch[i].kind, ch[i].destinations,
                                                 ch[i].conditional_edge)] :
                    ch \in [1..n -> choices] } : n \in 0..3 }

\* StateGraph(state)
EmptyBuilder == [nodes |-> {}, entry |-> <<>>, edges |-> {}, branches |-> {}, finish |-> <<>>]

BuildInit ==
    /\ b_nodes \in BuildNodeLists
    /\ b_pc = "add_nodes"
    /\ b_graph = EmptyBuilder

\* add_nodes(nodes, graph_builder)
AddNodes ==
    /\ b_pc = "add_nodes"
    /\ IF b_nodes = <<>>
       THEN b_pc' = "raised" /\ UNCHANGED b_graph
       ELSE /\ b_graph' = [b_graph EXCEPT !.nodes = {b_nodes[i].name : i \in 1..Len(b_nodes)}]
            /\ b_pc' = "set_entry_point"
    /\ UNCHANGED b_nodes

\* set_entry_point(nodes, graph_builder): the first node with is_start
SetEntryPoint ==
    /\ b_pc = "set_entry_point"
    /\ LET starts == {i \in 1..Len(b_nodes) : b_nodes[i].is_start}
       IN  IF starts = {}
           THEN b_pc' = "raised" /\ UNCHANGED b_graph
           ELSE /\ b_graph' = [b_graph EXCEPT !.entry =
                        <<b_nodes[CHOOSE i \in starts : \A j \in starts : i <= j].name>>]
                /\ b_pc' = "add_edges"
    /\ UNCHANGED b_nodes

\* add_edges(nodes, graph_builder): a node with a conditional_edge gets its
\* branch and nothing else; otherwise each destination that is the name of a
\* node of the list gets an edge
AddEdges ==
    /\ b_pc = "add_edges"
    /\ LET plain == {i \in 1..Len(b_nodes) : b_nodes[i].conditional_edge = <<>>}
       IN  b_graph' = [b_graph EXCEPT
                !.branches = { <<b_nodes[i].name, Range(b_nodes[i].conditional_edge)>> :
                                i \in (1..Len(b_nodes)) \ plain },
                !.edges = UNION { { <<b_nodes[i].name, d>> :
                                        d \in Range(b_nodes[i].destinations) \cap b_graph.nodes } :
                                  i \in plain }]
    /\ b_pc' = "set_end_points"
    /\ UNCHANGED b_nodes

\* set_end_points(nodes, graph_builder)
SetEndPoints ==
    /\ b_pc = "set_end_points"
    /\ LET ends == {i \in 1..Len(b_nodes) : b_nodes[i].is_end}
       IN  IF Cardinality(ends) # 1
           THEN b_pc' = "raised" /\ UNCHANGED b_graph
           ELSE /\ b_graph' = [b_graph EXCEPT !.finish = <<b_nodes[CHOOSE i \in ends : TRUE].name>>]
                /\ b_pc' = "compile"
    /\ UNCHANGED b_nodes

\* graph_builder.compile(): the builder refuses a branch whose mapping names
\* a node it does not hold
Compile ==
    /\ b_pc = "compile"
    /\ b_pc' = IF \A br \in b_graph.branches : br[2] \subseteq b_graph.nodes
               THEN "compiled" ELSE "raised"
    /\ UNCHANGED <<b_nodes, b_graph>>

BuildNext ==
    \/ AddNodes /\ UNCHANGED <<gate_vars, pipe_vars, score_vars, cache_vars, store_vars, fuse_vars>>
    \/ SetEntryPoint /\ UNCHANGED <<gate_vars, pipe_vars, score_vars, cache_vars, store_vars, fuse_vars>>
    \/ AddEdges /\ UNCHANGED <<gate_vars, pipe_vars, score_vars, cache_vars, store_vars, fuse_vars>>
    \/ SetEndPoints /\ UNCHANGED <<gate_vars, pipe_vars, score_vars, cache_vars, store_vars, fuse_vars>>
    \/ Compile /\ UNCHANGED <<gate_vars, pipe_vars, score_vars, cache_vars, store_vars, fuse_vars>>

BuildSpecInit ==
    BuildInit /\ GateIdle /\ PipeIdle /\ ScoreIdle /\ CacheIdle /\ StoreIdle /\ FuseIdle

BuildSpec == BuildSpecInit /\ [][BuildNext]_vars

\* ======================================================================
\* Properties of create_graph
\* ======================================================================

BuildStarts == {i \in 1..Len(b_nodes) : b_nodes[i].is_start}

BuildEnds == {i \in 1..Len(b_nodes) : b_nodes[i].is_end}

\* C24: a node list with zero or several start nodes, or zero or several
\* end nodes, makes create_graph raise before the pipeline is compiled; only
\* a list with exactly one start node and exactly one end node is compiled.
C24_OneStartOneEnd ==
    b_pc \in {"compile", "compiled"} =>
        Cardinality(BuildStarts) = 1 /\ Cardinality(BuildEnds) = 1

\* C24 without the case of several start nodes: no start node, no end node
\* or several end nodes make create_graph raise before compile
C24_RaisesExceptSeveralStarts ==
    b_pc \in {"compile", "compiled"} =>
        Cardinality(BuildStarts) >= 1 /\ Cardinality(BuildEnds) = 1

\* C25: a destination that names no node of the list makes the construction
\* raise; every declared destination of every node is an edge of the built
\* pipeline.
C25_EveryDestinationIsAnEdge ==
    b_pc = "compiled" =>
        \A i \in 1..Len(b_nodes) : \A d \in Range(b_nodes[i].destinations) :
            <<b_nodes[i].name, d>> \in b_graph.edges

\* ======================================================================
\* Properties of the groups create_review_chunks makes
\* ======================================================================

\* the groups the scorer's jobs work on
ScoreGroups == create_review_chunks(s_reviews, MaxChunkTokens)

\* the estimated tokens of the prompt of a group: the fixed part and one
\* line per entry, holding the entry's cleaned_text
GroupTokens(group) ==
    BasePromptTokens
        + SumSeq([i \in 1..Len(group) |-> LineTokens + SumSeq(group[i].cleaned_text)])

\* C26: for every review list, the estimated token cost of every group that
\* create_review_chunks returns, plus the fixed prompt overhead, is within
\* the budget, for groups of whole reviews and for groups of one part of a
\* split review.
C26_GroupsWithinBudget ==
    s_completed # <<>> =>
        \A g \in 1..Len(ScoreGroups) : GroupTokens(ScoreGroups[g]) <= MaxChunkTokens

\* C26 for the groups of whole reviews alone
C26_WholeGroupsWithinBudget ==
    s_completed # <<>> =>
        \A g \in 1..Len(ScoreGroups) :
            (\A i \in 1..Len(ScoreGroups[g]) : ~ScoreGroups[g][i].is_split) =>
                GroupTokens(ScoreGroups[g]) <= MaxChunkTokens

\* the reviews create_review_chunks splits
IsSplitReview(review) == LineTokens + SumSeq(review.text) + BasePromptTokens > MaxChunkTokens

\* C27: for a review that create_review_chunks splits, the score map that
\* score_reviews_batch_with_llm returns has an entry keyed by the review's
\* original id.
C27_SplitScoresReunified ==
    \A k \in 1..Len(s_completed) : \A r \in 1..Len(s_reviews) :
        IsSplitReview(s_reviews[r]) =>
            DictHas(JobResult(s_completed[k]), IntKey(s_reviews[r].id))

\* C27 for the reviews that are not split: they keep the entry under their id
C27_WholeReviewsKeyed ==
    \A k \in 1..Len(s_completed) : \A r \in 1..Len(s_reviews) :
        ~IsSplitReview(s_reviews[r]) =>
            DictHas(JobResult(s_completed[k]), IntKey(s_reviews[r].id))

\* ======================================================================
\* Properties of the retry counters of the two gates
\* ======================================================================

\* C28: every retry of the confidence gate, an execution of rerank_node,
\* increases by exactly 1 the counter that check_confidence_with_retry_limit
\* reads, starting at 0, and leaves result_generate_retry_count unchanged.
C28_ConfidenceRetryCounted ==
    [][RerankNode =>
        /\ Get(gate_state', GateRetryKey, 0) = Get(gate_state, GateRetryKey, 0) + 1
        /\ Get(gate_state', "result_generate_retry_count", 0)
                = Get(gate_state, "result_generate_retry_count", 0)]_vars

\* C28 for the counter rerank_node writes, which is not the one the gate
\* reads: it goes up by 1 with every execution of rerank_node
C28_RerankCounterCounted ==
    [][RerankNode =>
        /\ Get(gate_state', "re_rank_retry_count", 0)
                = Get(gate_state, "re_rank_retry_count", 0) + 1
        /\ Get(gate_state', "result_generate_retry_count", 0)
                = Get(gate_state, "result_generate_retry_count", 0)]_vars

\* C28 for the summary gate: a regeneration by generate_summary_node raises
\* result_generate_retry_count by 1 and writes neither counter of the
\* confidence gate
C28_SummaryRetryCounted ==
    Runs("generate_summary") =>
        \A outcome \in {"ok", "failed"} :
            LET u == generate_summary_node(p_state, outcome)
                retry_count == Get(p_state, "result_generate_retry_count", 0)
            IN  /\ retry_count < RetryCap =>
                        u.result_generate_retry_count = retry_count + 1
                /\ DOMAIN u \cap {GateRetryKey, "re_rank_retry_count"} = {}

\* ======================================================================
\* Properties of a selector whose backend call fails
\* ======================================================================

\* the call just made was a selector whose backend call, or the parsing of
\* its output, raised
SelectFailed(call) == call.op = "select" /\ call.backend /\ ~call.answered

\* C29: when the backend call of llm_selector_node or the parsing of its
\* output fails, the selector returns an empty selected_reviews list and
\* leaves the cache as it was: no entry is written for its key, and the next
\* run with the same inputs calls the backend again.
C29_FailedSelectionNotCached ==
    [][k_ops' # k_ops =>
        /\ SelectFailed(k_last') =>
                /\ k_last'.result = Py("list", "", <<>>)
                /\ k_files' = k_files
        /\ (SelectFailed(k_last) /\ k_last'.op = "select" /\ k_last'.arg = k_last.arg) =>
                k_last'.backend]_vars

\* a selector failed, and the next call was the same selector on the same
\* reviews, which called the backend again
C29_Witness ==
    /\ SelectFailed(k_prev)
    /\ k_last.op = "select"
    /\ k_last.arg = k_prev.arg
    /\ k_last.backend

\* ======================================================================
\* Properties of the ids held by the state of a pipeline run
\* ======================================================================

\* ids of the reviews fetched for the run
FetchedIds == ReviewIds(Get(p_state, "reviews", <<>>))

\* C30: in every reachable state of a pipeline run, each review in
\* selected_reviews and each review in aggregated_best_reviews has the id of
\* a review fetched for that run; an id a selector or the aggregation
\* backend returns that matches no fetched or selected review is dropped.
C30_StateHoldsFetchedIds ==
    /\ ReviewIds(Get(p_state, "selected_reviews", <<>>)) \subseteq FetchedIds
    /\ ReviewIds(Get(p_state, "aggregated_best_reviews", <<>>)) \subseteq FetchedIds

\* two reviews were fetched, a selector's backend answered with the
\* candidates 2 (score 50) and 3, of which 3 matches no fetched review, and
\* aggregate_best has chosen among the selected reviews
C30_Witness ==
    /\ FetchedIds = {1, 2}
    /\ \E i \in 1..Len(p_state["selected_reviews"]) : p_state["selected_reviews"][i].score = 50
    /\ 3 \notin ReviewIds(p_state["selected_reviews"])
    /\ Get(p_state, "aggregated_best_reviews", <<>>) # <<>>

====
